---- MODULE Spec2Model ----
(***************************************************************************)
(* Podd database support functions (src/Database/Database.cxx).            *)
(*                                                                         *)
(* Text is a sequence of symbols.  A symbol is one character, written as a *)
(* one-character string, except that the 19 characters of a date-time      *)
(* text such as 2000-01-01 00:00:00 are one symbol (strptime, a library    *)
(* routine, reads them as a unit).  A file is a sequence of physical       *)
(* lines, a file position is the number of physical lines already read.    *)
(*                                                                         *)
(* Integers are exact: a sign and a sequence of decimal digits, so that    *)
(* the limits of the 64 bit types are the real ones.                       *)
(*                                                                         *)
(* Callers pass non-null file, key, request and prefix arguments, no text  *)
(* variables are defined (gHaTextvars is null), and no request asks for a  *)
(* floating-point type.                                                    *)
(*                                                                         *)
(* SpecLoad  runs LoadDBvalue line by line on files with date stamps.      *)
(* SpecConv  runs the scalar load LoadDBvalue<T> on one value text.        *)
(* SpecDB    runs LoadDatabase on requests of several items.               *)
(* SpecDest  runs LoadDatabase on one item of each kind of destination.    *)
(* SpecArr   runs LoadDatabase on one array or matrix item.                *)
(* SpecRead  calls ReadDBline until it returns EOF.                        *)
(* SpecFiles calls GetDBFileList on a database directory.                  *)
(* SpecSeek  calls SeekDBconfig or SeekDBdate on a file with section tags. *)
(***************************************************************************)
EXTENDS Integers, Sequences, FiniteSets, TLC

VARIABLES
  file,           \* the database file: a sequence of physical lines
  date,           \* the requested date (yyyymmdd)
  key,            \* the key LoadDBvalue looks for
  pc,             \* position of the running operation
  fpos,           \* position of the file
  scan,           \* LoadDBvalue's locals: keydate, prevdate, do_ignore, found, value
  lines,          \* the logical lines ReadDBline has returned so far
  ret,            \* the status the operation returned
  text,           \* the value text a typed load found for its key
  ctype,          \* the type a typed load converts to
  dest,           \* the caller's destination variables
  req,            \* the request array given to LoadDatabase
  prefix,         \* the prefix given to LoadDatabase
  search,         \* the global search level given to LoadDatabase
  stack,          \* the nested calls of LoadDatabase, the running one last
  loaddb_depth,   \* thread-local recursion depth of LoadDatabase
  loaddb_prefix,  \* thread-local prefix of the outermost LoadDatabase
  tried,          \* the lookups LoadDatabase has made: [var, key, ret]
  errlog,         \* the diagnostics LoadDatabase has emitted: [what, var, key]
  reads,          \* the calls of ReadDBline made so far: [from, r, line, pos]
  name,           \* the database name given to GetDBFileList
  dbdir,          \* the value of the environment variable DB_DIR, <<>> if unset
  openable,       \* the directories that OpenDirectory can open
  entries,        \* the entries of the database directory, as GetDirEntry lists them
  fnames,         \* the list GetDBFileList returned
  tag,            \* the configuration tag given to SeekDBconfig
  label,          \* the label given to SeekDBconfig
  end_on_tag,     \* the end_on_tag flag given to SeekDBconfig and SeekDBdate
  seekpos         \* the position of the file when the seek was called (pos)

vars == <<file, date, key, pc, fpos, scan, lines, ret, text, ctype, dest,
          req, prefix, search, stack, loaddb_depth, loaddb_prefix, tried, errlog,
          reads, name, dbdir, openable, entries, fnames, tag, label, end_on_tag, seekpos>>

convVars == <<text, ctype, dest>>

dbVars == <<req, prefix, search, stack, loaddb_depth, loaddb_prefix, tried, errlog>>

listVars == <<name, dbdir, openable, entries, fnames>>

seekVars == <<tag, label, end_on_tag, seekpos>>

auxVars == <<reads, listVars, seekVars>>

---------------------------------------------------------------------------
(* Bounds of the model and program constants *)

MaxLines == 4

EOF == -1

Sentinel95 == 19950101

NUL == ""

---------------------------------------------------------------------------
(* Text helpers *)

Min2(a, b) == IF a <= b THEN a ELSE b

Last(s) == s[Len(s)]

Front(s) == SubSeq(s, 1, Len(s) - 1)

isspace(c) == c \in {" ", "\t"}

\* index of the first c at or after from, 0 if there is none (string::find, strchr)
FindFrom(s, c, from) ==
  LET I == {i \in from..Len(s) : s[i] = c}
  IN IF I = {} THEN 0 ELSE CHOOSE i \in I : \A j \in I : i <= j

\* the text without its leading and trailing whitespace
Trim(s) ==
  LET I == {i \in 1..Len(s) : ~isspace(s[i])}
  IN IF I = {} THEN <<>>
     ELSE SubSeq(s, CHOOSE i \in I : \A j \in I : i <= j,
                    CHOOSE i \in I : \A j \in I : i >= j)

\* the text without its leading blanks (while( *ln == ' ' ) ++ln)
SkipBlanks(s) ==
  LET I == {i \in 1..Len(s) : s[i] # " "}
  IN IF I = {} THEN <<>>
     ELSE SubSeq(s, CHOOSE i \in I : \A j \in I : i <= j, Len(s))

\* the character of a C string at index i (1-based), NUL past its end
CharAt(s, i) == IF i <= Len(s) THEN s[i] ELSE NUL

\* strncmp(a, b, n) == 0: the first n characters agree, a NUL ending the comparison
strncmpEqual(a, b, n) ==
  \A i \in 1..n :
    (\A j \in 1..(i - 1) : CharAt(a, j) # NUL /\ CharAt(a, j) = CharAt(b, j))
      => CharAt(a, i) = CharAt(b, i)

-------------------------------------------------------------------------------------------------------------------------------------------------
(* Date stamps *)

\* the date-time texts of the model and the TDatime each one parses to
DateOf ==
  [t \in {"1990-01-01 00:00:00", "2000-01-01 00:00:00", "2010-06-15 12:00:00"} |->
     CASE t = "1990-01-01 00:00:00" -> 19900101
       [] t = "2000-01-01 00:00:00" -> 20000101
       [] t = "2010-06-15 12:00:00" -> 20100615]

Width(sym) == IF sym \in DOMAIN DateOf THEN 19 ELSE 1

\* the number of characters of a text
RECURSIVE Size(_)
Size(s) == IF s = <<>> THEN 0 ELSE Width(s[1]) + Size(Tail(s))

NoDate == [ok |-> FALSE, date |-> 0]

\* strptime on the text between the brackets, then the check of the year
ParseStamp(ts) ==
  IF ~(Len(ts) = 1 /\ ts[1] \in DOMAIN DateOf) THEN NoDate
  ELSE IF DateOf[ts[1]] < Sentinel95 THEN NoDate
  ELSE [ok |-> TRUE, date |-> DateOf[ts[1]]]

IsDBdateBrackets(line, lbrk, rbrk) ==
  IF rbrk = 0 \/ Size(SubSeq(line, 1, rbrk - 1)) <= Size(SubSeq(line, 1, lbrk - 1)) + 11
  THEN NoDate
  ELSE ParseStamp(Trim(SubSeq(line, lbrk + 1, rbrk - 1)))

IsDBdateFrom(line, lbrk, size) ==
  IF lbrk = 0 \/ (size >= 12 /\ Size(SubSeq(line, 1, lbrk - 1)) >= size - 12)
  THEN NoDate
  ELSE IsDBdateBrackets(line, lbrk, FindFrom(line, "]", lbrk))

\* IsDBdate: [ok, date]; date is the parsed stamp when ok
IsDBdate(line) == IsDBdateFrom(line, FindFrom(line, "[", 1), Size(line))

---------------------------------------------------------------------------
(* Keys *)

\* the first index at or after from that holds no blank
FirstNonBlank(s, from) ==
  CHOOSE i \in from..(Len(s) + 1) :
    (i = Len(s) + 1 \/ s[i] # " ") /\ \A j \in from..(i - 1) : s[j] = " "

\* the last index at or before upto that holds no blank
LastNonBlank(s, upto) ==
  CHOOSE i \in 0..upto :
    (i = 0 \/ s[i] # " ") /\ \A j \in (i + 1)..upto : s[j] = " "

IsDBkeyLhs(line, k, eq, ln, p) ==
  IF ln = eq THEN [status |-> -1, text |-> <<>>]
  ELSE IF ~strncmpEqual(SubSeq(line, ln, Len(line)), k, p - ln + 1)
    THEN [status |-> -1, text |-> <<>>]
  ELSE [status |-> 1, text |-> SkipBlanks(SubSeq(line, eq + 1, Len(line)))]

IsDBkeyAt(line, k, eq) ==
  IF eq = 0 THEN [status |-> 0, text |-> <<>>]
  ELSE IsDBkeyLhs(line, k, eq, FirstNonBlank(line, 1), LastNonBlank(line, eq - 1))

\* IsDBkey: [status, text]; text is the value when status = 1
IsDBkey(line, k) == IsDBkeyAt(line, k, FindFrom(line, "=", 1))

\* the assertion of IsDBkey on the text after '=': trailing space already trimmed
IsDBkeyAssertion(line) ==
  FindFrom(line, "=", 1) = Len(line) \/ Last(line) # " "

---------------------------------------------------------------------------
(* Line reader *)

\* GetLine: the next physical line with its tabs turned into spaces
GetLine(f, pos) ==
  IF pos >= Len(f) THEN [r |-> EOF, line |-> <<>>, pos |-> pos]
  ELSE [r |-> 0,
        line |-> [i \in 1..Len(f[pos + 1]) |->
                    IF f[pos + 1][i] = "\t" THEN " " ELSE f[pos + 1][i]],
        pos |-> pos + 1]

IsAssignmentAt(str, pos) ==
  IF pos = 0 THEN FALSE
  ELSE IF Cardinality({i \in 1..Len(str) : \A j \in 1..i : isspace(str[j])}) = pos - 1
    THEN FALSE
  ELSE ~(str[pos - 1] \in {"!", "<", ">"}
         \/ (pos < Len(str) /\ str[pos + 1] = "="))

IsAssignment(str) == IsAssignmentAt(str, FindFrom(str, "=", 1))

\* the end of prepare_line: note leading and trailing space, then trim
PrepareTrim(cut, comment, continued) ==
  [buf |-> Trim(cut), comment |-> comment, continued |-> continued,
   leading_space |-> (cut # <<>> /\ isspace(cut[1])),
   trailing_space |-> (cut # <<>> /\ isspace(Last(cut)))]

\* prepare_line with the places of the first '#' (hash) and '\' (pos2), 0 for none
PrepareAt(linbuf, hash, pos2) ==
  IF hash = 1
  THEN [buf |-> <<>>, comment |-> TRUE, continued |-> FALSE,
        leading_space |-> FALSE, trailing_space |-> FALSE]
  ELSE IF hash = 0 /\ pos2 = 0 THEN PrepareTrim(linbuf, FALSE, FALSE)
  ELSE IF pos2 # 0 /\ (hash = 0 \/ pos2 < hash)
    THEN PrepareTrim(SubSeq(linbuf, 1, pos2 - 1), FALSE, TRUE)
  ELSE PrepareTrim(SubSeq(linbuf, 1, hash - 1), TRUE, FALSE)

prepare_line(linbuf) ==
  IF linbuf = <<>>
  THEN [buf |-> <<>>, comment |-> FALSE, continued |-> FALSE,
        leading_space |-> FALSE, trailing_space |-> FALSE]
  ELSE PrepareAt(linbuf, FindFrom(linbuf, "#", 1), FindFrom(linbuf, "\\", 1))

\* a reader that drops the white space before a continuation mark
ReadAppendUnspaced(st, p, mc) ==
  [st EXCEPT
     !.maybe_continued = mc,
     !.unfinished = (p.continued \/ mc),
     !.line = (IF p.leading_space /\ st.line # <<>> /\ ~isspace(Last(st.line))
               THEN Append(st.line, " ") ELSE st.line)
              \o (IF mc THEN Append(p.buf, " ") ELSE p.buf)]

\* the end of a pass that has data: set the flags and append the data to the result
ReadAppend(st, p, mc) ==
  [st EXCEPT
     !.maybe_continued = mc,
     !.unfinished = (p.continued \/ mc),
     !.line = (IF p.leading_space /\ st.line # <<>> /\ ~isspace(Last(st.line))
               THEN Append(st.line, " ") ELSE st.line)
              \o (IF mc \/ (p.trailing_space /\ p.continued)
                  THEN Append(p.buf, " ") ELSE p.buf)]

\* the body of the while loop of ReadDBline for the prepared line p; st.exit is
\* set by a break
ReadBody(st, p, is_assignment) ==
  IF st.line = <<>> /\ p.buf = <<>> THEN st
  ELSE IF p.buf # <<>> /\ st.maybe_continued /\ is_assignment
    THEN [st EXCEPT !.pos = st.oldpos, !.exit = TRUE]
  ELSE IF p.buf = <<>> /\ (p.continued \/ p.comment) THEN st
  ELSE IF p.buf = <<>> THEN [st EXCEPT !.exit = TRUE]
  ELSE ReadAppend(st, p,
         st.maybe_continued \/ (st.line = <<>> /\ ~p.continued /\ is_assignment))

ReadPrepared(st, p) == ReadBody(st, p, p.buf # <<>> /\ IsAssignment(p.buf))

\* one pass of the while loop of ReadDBline with the outcome g of GetLine; st holds
\* the function's locals and the file position, st.exit is set by GetLine's EOF
ReadGot(st, g) ==
  IF g.r # 0 THEN [st EXCEPT !.oldpos = st.pos, !.r = g.r, !.exit = TRUE]
  ELSE ReadPrepared([st EXCEPT !.oldpos = st.pos, !.pos = g.pos, !.r = g.r],
                    prepare_line(g.line))

ReadPass(f, st) == ReadGot(st, GetLine(f, st.pos))

RECURSIVE ReadLoop(_, _)
ReadLoop(f, st) ==
  IF ~st.unfinished \/ st.exit THEN st ELSE ReadLoop(f, ReadPass(f, st))

\* the end of ReadDBline: back out of an EOF met by a tentative continuation and
\* remove its tentative space
ReadFinish(s) ==
  [r    |-> IF s.maybe_continued /\ s.r = EOF THEN 0 ELSE s.r,
   pos  |-> IF s.maybe_continued /\ s.r = EOF THEN s.oldpos ELSE s.pos,
   line |-> IF s.maybe_continued /\ isspace(Last(s.line)) THEN Front(s.line)
            ELSE s.line]

\* ReadDBline: [r, line, pos], pos the file position it leaves
ReadDBline(f, pos) ==
  ReadFinish(ReadLoop(f, [pos |-> pos, oldpos |-> pos, line |-> <<>>,
                          maybe_continued |-> FALSE, unfinished |-> TRUE,
                          r |-> 0, exit |-> FALSE]))

---------------------------------------------------------------------------
(* Value resolver *)

ScanInit == [keydate |-> Sentinel95, prevdate |-> Sentinel95,
             do_ignore |-> FALSE, found |-> FALSE, value |-> <<>>]

\* a line that is not taken as a key: a date stamp sets keydate and do_ignore
LoadStamp(st, dd, d) ==
  IF dd.ok
  THEN [st EXCEPT !.keydate = dd.date,
                  !.do_ignore = (dd.date > d \/ dd.date < st.prevdate)]
  ELSE st

LoadKeyOrStamp(st, line, d, kk) ==
  IF ~st.do_ignore /\ kk.status # 0
  THEN IF kk.status > 0
       THEN [st EXCEPT !.found = TRUE, !.prevdate = st.keydate, !.value = kk.text]
       ELSE st
  ELSE LoadStamp(st, IsDBdate(line), d)

\* the body of LoadDBvalue's loop for one logical line (no text variables set)
LoadLine(st, line, d, k) ==
  IF line = <<>> THEN st ELSE LoadKeyOrStamp(st, line, d, IsDBkey(line, k))

RECURSIVE LoadScan(_, _, _, _, _)

\* the loop of LoadDBvalue with the outcome rd of its call of ReadDBline
LoadScanOn(f, st, d, k, rd) ==
  IF rd.r = EOF THEN st
  ELSE LoadScan(f, rd.pos, LoadLine(st, rd.line, d, k), d, k)

\* the loop of LoadDBvalue from file position pos on
LoadScan(f, pos, st, d, k) == LoadScanOn(f, st, d, k, ReadDBline(f, pos))

LoadResult(st) == [ret |-> IF st.found THEN 0 ELSE 1, value |-> st.value]

\* LoadDBvalue( file, date, key, string& value ): [ret, value]
LoadDBvalue(f, d, k, value) ==
  LoadResult(LoadScan(f, 0, [ScanInit EXCEPT !.value = value], d, k))

---------------------------------------------------------------------------
(* Numbers.  An integer is [neg, mag]: its sign and its magnitude as a     *)
(* sequence of decimal digits, most significant first, without leading     *)
(* zeros; the limits of the 64-bit types are kept exactly in this form.    *)

DigitChar == <<"0", "1", "2", "3", "4", "5", "6", "7", "8", "9">>

IsDigit(c) == \E n \in 1..10 : DigitChar[n] = c

DigitVal(c) == (CHOOSE n \in 1..10 : DigitChar[n] = c) - 1

\* the digits without leading zeros
Norm(d) ==
  LET I == {i \in 1..Len(d) : d[i] # 0}
  IN IF I = {} THEN <<0>>
     ELSE SubSeq(d, CHOOSE i \in I : \A j \in I : i <= j, Len(d))

\* a < b for magnitudes
MagLess(a, b) ==
  \/ Len(a) < Len(b)
  \/ /\ Len(a) = Len(b)
     /\ \E i \in 1..Len(a) :
          a[i] < b[i] /\ \A j \in 1..(i - 1) : a[j] = b[j]

\* digit i, counted from the least significant one, of magnitude a
DigitAt(a, i) == IF i <= Len(a) THEN a[Len(a) + 1 - i] ELSE 0

\* the borrow into digit i (from the least significant one) of a - b
RECURSIVE Borrow(_, _, _)
Borrow(a, b, i) ==
  IF i = 1 THEN 0
  ELSE IF DigitAt(a, i - 1) - DigitAt(b, i - 1) - Borrow(a, b, i - 1) < 0 THEN 1 ELSE 0

\* a - b for magnitudes with b <= a
MagSub(a, b) ==
  Norm([k \in 1..Len(a) |->
          (DigitAt(a, Len(a) + 1 - k) - DigitAt(b, Len(a) + 1 - k)
             - Borrow(a, b, Len(a) + 1 - k) + 10) % 10])

Zero == [neg |-> FALSE, mag |-> <<0>>]

IntOf(neg, mag) == [neg |-> (neg /\ mag # <<0>>), mag |-> mag]

\* x <= y for integers
IntLeq(x, y) ==
  IF x.neg /\ ~y.neg THEN TRUE
  ELSE IF ~x.neg /\ y.neg THEN FALSE
  ELSE IF x.neg THEN ~MagLess(x.mag, y.mag)
  ELSE ~MagLess(y.mag, x.mag)

LLONG_MAX == <<9, 2, 2, 3, 3, 7, 2, 0, 3, 6, 8, 5, 4, 7, 7, 5, 8, 0, 7>>

LLONG_MIN_MAG == <<9, 2, 2, 3, 3, 7, 2, 0, 3, 6, 8, 5, 4, 7, 7, 5, 8, 0, 8>>

ULLONG_MAX == <<1, 8, 4, 4, 6, 7, 4, 4, 0, 7, 3, 7, 0, 9, 5, 5, 1, 6, 1, 5>>

TWO_64 == <<1, 8, 4, 4, 6, 7, 4, 4, 0, 7, 3, 7, 0, 9, 5, 5, 1, 6, 1, 6>>

\* the integer types of a request: their signedness and numeric_limits
IntTypes ==
  [ kChar   |-> [signed |-> TRUE,  max |-> <<1, 2, 7>>, minmag |-> <<1, 2, 8>>],
    kByte   |-> [signed |-> FALSE, max |-> <<2, 5, 5>>, minmag |-> <<0>>],
    kShort  |-> [signed |-> TRUE,  max |-> <<3, 2, 7, 6, 7>>, minmag |-> <<3, 2, 7, 6, 8>>],
    kUShort |-> [signed |-> FALSE, max |-> <<6, 5, 5, 3, 5>>, minmag |-> <<0>>],
    kInt    |-> [signed |-> TRUE,  max |-> <<2, 1, 4, 7, 4, 8, 3, 6, 4, 7>>,
                 minmag |-> <<2, 1, 4, 7, 4, 8, 3, 6, 4, 8>>],
    kUInt   |-> [signed |-> FALSE, max |-> <<4, 2, 9, 4, 9, 6, 7, 2, 9, 5>>, minmag |-> <<0>>],
    kLong   |-> [signed |-> TRUE,  max |-> LLONG_MAX, minmag |-> LLONG_MIN_MAG],
    kULong  |-> [signed |-> FALSE, max |-> ULLONG_MAX, minmag |-> <<0>>] ]

\* the first index at or after i that holds no whitespace
SkipSpace(s, i) ==
  CHOOSE j \in i..(Len(s) + 1) :
    (j = Len(s) + 1 \/ ~isspace(s[j])) /\ \A m \in i..(j - 1) : isspace(s[m])

\* the first index at or after i that holds no digit
DigitsEnd(s, i) ==
  CHOOSE j \in i..(Len(s) + 1) :
    (j = Len(s) + 1 \/ ~IsDigit(s[j])) /\ \A m \in i..(j - 1) : IsDigit(s[m])

\* the subject sequence of strtoll and strtoull from index from on, s[from..to-1]
\* being its digits: [any, neg, mag, end]; end = 1 (the start) if there is no digit
ParseDigits(s, neg, from, to) ==
  IF to = from THEN [any |-> FALSE, neg |-> FALSE, mag |-> <<0>>, end |-> 1]
  ELSE [any |-> TRUE, neg |-> neg,
        mag |-> Norm([i \in 1..(to - from) |-> DigitVal(s[from + i - 1])]),
        end |-> to]

ParseSign(s, i) ==
  IF i <= Len(s) /\ s[i] \in {"+", "-"}
  THEN ParseDigits(s, s[i] = "-", i + 1, DigitsEnd(s, i + 1))
  ELSE ParseDigits(s, FALSE, i, DigitsEnd(s, i))

\* white space, an optional sign, decimal digits
ParseInt(s) == ParseSign(s, SkipSpace(s, 1))

\* strtoll of the parsed text: [val, end, errno]
strtollOf(q) ==
  IF ~q.any THEN [val |-> Zero, end |-> 1, errno |-> FALSE]
  ELSE IF q.neg /\ MagLess(LLONG_MIN_MAG, q.mag)
    THEN [val |-> IntOf(TRUE, LLONG_MIN_MAG), end |-> q.end, errno |-> TRUE]
  ELSE IF ~q.neg /\ MagLess(LLONG_MAX, q.mag)
    THEN [val |-> IntOf(FALSE, LLONG_MAX), end |-> q.end, errno |-> TRUE]
  ELSE [val |-> IntOf(q.neg, q.mag), end |-> q.end, errno |-> FALSE]

\* strtoull of the parsed text: a negative text within range is negated in the
\* unsigned type
strtoullOf(q) ==
  IF ~q.any THEN [val |-> Zero, end |-> 1, errno |-> FALSE]
  ELSE IF MagLess(ULLONG_MAX, q.mag)
    THEN [val |-> IntOf(FALSE, ULLONG_MAX), end |-> q.end, errno |-> TRUE]
  ELSE IF q.neg /\ q.mag # <<0>>
    THEN [val |-> IntOf(FALSE, MagSub(TWO_64, q.mag)), end |-> q.end, errno |-> FALSE]
  ELSE [val |-> IntOf(FALSE, q.mag), end |-> q.end, errno |-> FALSE]

\* convert_string<T>: strtoll for a signed type, strtoull for an unsigned one
convert_string(T, s) ==
  IF IntTypes[T].signed THEN strtollOf(ParseInt(s)) ELSE strtoullOf(ParseInt(s))

\* is_in_range<T>(val), val of type long long for a signed T and of type unsigned
\* long long for an unsigned T
is_in_range(T, val) ==
  IF ~IntLeq(val, IntOf(FALSE, IntTypes[T].max)) THEN FALSE
  ELSE IF IntTypes[T].signed THEN IntLeq(IntOf(TRUE, IntTypes[T].minmag), val)
  ELSE TRUE

\* the test of LoadDBvalue<T> and LoadDBarray on the outcome c of convert_string
ConversionFails(T, s, c) ==
  \/ c.end = 1
  \/ (c.end <= Len(s) /\ ~isspace(s[c.end]))
  \/ c.errno
  \/ ~is_in_range(T, c.val)

\* the conversion of LoadDBvalue<T> on the text found: [ret, value], value being
\* what the caller's variable holds afterwards
ConvertOutcome(T, s, old, c) ==
  IF ConversionFails(T, s, c) THEN [ret |-> -131, value |-> old]
  ELSE [ret |-> 0, value |-> c.val]

ConvertValue(T, s, old) == ConvertOutcome(T, s, old, convert_string(T, s))

-----
(* LoadDBvalue run line by line on a file *)

StampLine(t) == <<"[", " ", t, " ", "]">>

AssignLine(k, v) == k \o <<" ", "=", " ">> \o v

KeyX == <<"x">>

KeyL == <<"L">>

KeyLn == <<"L", ".", "n">>

\* the physical lines the files of SpecLoad are made of
LoadAlphabet ==
  { StampLine("2000-01-01 00:00:00"), StampLine("2010-06-15 12:00:00"),
    AssignLine(KeyX, <<"a">>), AssignLine(KeyX, <<"b">>),
    AssignLine(KeyL, <<"5">>), AssignLine(KeyLn, <<"7">>),
    <<>> }

LoadFiles == UNION {[1..n -> LoadAlphabet] : n \in 0..MaxLines}

LoadDates == {19990101, 20050101, 20150101}

LoadKeys == {KeyX, KeyLn}

\* no typed load is running
ConvIdle == text = <<>> /\ ctype = "kString" /\ dest = <<>>

\* no GetDBFileList has been called
ListIdle ==
  name = <<>> /\ dbdir = <<>> /\ openable = {} /\ entries = <<>> /\ fnames = <<>>

\* no seek has been called
SeekIdle == tag = <<>> /\ label = <<>> /\ end_on_tag = FALSE /\ seekpos = 0

\* no other operation is running
AuxIdle == reads = <<>> /\ ListIdle /\ SeekIdle

\* no LoadDatabase is running
DBIdle ==
  /\ req = <<>> /\ prefix = <<>> /\ search = 0 /\ stack = <<>>
  /\ loaddb_depth = 0 /\ loaddb_prefix = <<>> /\ tried = <<>> /\ errlog = <<>>

LoadInit ==
  /\ ConvIdle
  /\ DBIdle
  /\ AuxIdle
  /\ file \in LoadFiles
  /\ date \in LoadDates
  /\ key \in LoadKeys
  /\ pc = "scan"
  /\ fpos = 0
  /\ scan = ScanInit
  /\ lines = <<>>
  /\ ret = 0

LoadStepOn(rd) ==
  /\ rd.r # EOF
  /\ fpos' = rd.pos
  /\ lines' = Append(lines, rd.line)
  /\ scan' = LoadLine(scan, rd.line, date, key)

\* one pass of the loop of LoadDBvalue: read a logical line and evaluate it
LoadStep ==
  /\ pc = "scan"
  /\ LoadStepOn(ReadDBline(file, fpos))
  /\ UNCHANGED <<auxVars, file, date, key, pc, ret, convVars, dbVars>>

\* ReadDBline returned EOF: LoadDBvalue returns
LoadReturn ==
  /\ pc = "scan"
  /\ ReadDBline(file, fpos).r = EOF
  /\ pc' = "done"
  /\ ret' = LoadResult(scan).ret
  /\ UNCHANGED <<auxVars, file, date, key, fpos, scan, lines, convVars, dbVars>>

LoadNext == LoadStep \/ LoadReturn

SpecLoad == LoadInit /\ [][LoadNext]_vars

---------------------------------------------------------------------------
(* The scalar load LoadDBvalue<T> on a file that assigns one value text *)

\* LoadDBvalue<T> after its string load r: [ret, value, text]
LoadTypedOn(T, old, r) ==
  IF r.ret # 0 THEN [ret |-> r.ret, value |-> old]
  ELSE ConvertValue(T, r.value, old)

\* LoadDBvalue( file, date, key, T& value ): [ret, value]
LoadDBvalueT(f, d, k, T, old) == LoadTypedOn(T, old, LoadDBvalue(f, d, k, <<>>))

\* the digits as text
Chars(d) == [i \in 1..Len(d) |-> DigitChar[d[i] + 1]]

\* the magnitudes the value texts are made of: the limits of the types and their
\* neighbours
ConvMagnitudes ==
  { <<0>>, <<5>>, <<0, 0, 7>>,
    <<1, 2, 7>>, <<1, 2, 8>>, <<1, 2, 9>>, <<2, 5, 5>>, <<2, 5, 6>>,
    <<3, 2, 7, 6, 7>>, <<3, 2, 7, 6, 8>>, <<3, 2, 7, 6, 9>>,
    <<6, 5, 5, 3, 5>>, <<6, 5, 5, 3, 6>>,
    <<2, 1, 4, 7, 4, 8, 3, 6, 4, 7>>, <<2, 1, 4, 7, 4, 8, 3, 6, 4, 8>>,
    <<2, 1, 4, 7, 4, 8, 3, 6, 4, 9>>,
    <<4, 2, 9, 4, 9, 6, 7, 2, 9, 5>>, <<4, 2, 9, 4, 9, 6, 7, 2, 9, 6>>,
    LLONG_MAX, LLONG_MIN_MAG,
    <<9, 2, 2, 3, 3, 7, 2, 0, 3, 6, 8, 5, 4, 7, 7, 5, 8, 0, 9>>,
    <<1, 8, 4, 4, 6, 7, 4, 4, 0, 7, 3, 7, 0, 9, 5, 5, 1, 6, 1, 4>>,
    ULLONG_MAX, TWO_64 }

ConvSigns == {<<>>, <<"-">>, <<"+">>}

ConvSuffixes == {<<>>, <<" ">>, <<"\t">>, <<" ", "a", "b", "c">>, <<"a">>, <<" ", "2">>}

\* the value texts written after "x = "
ConvTexts ==
  {sg \o Chars(m) \o sf : sg \in ConvSigns, m \in ConvMagnitudes, sf \in ConvSuffixes}
    \cup {<<>>, <<"a">>, <<"-">>, <<"-", " ", "5">>}

\* what the caller's integer variable holds before the load
OldInt == IntOf(FALSE, <<4, 2>>)

ConvInit ==
  /\ DBIdle
  /\ AuxIdle
  /\ \E s \in ConvTexts : file = <<AssignLine(KeyX, s)>>
  /\ date = 20150101
  /\ key = KeyX
  /\ ctype \in DOMAIN IntTypes
  /\ dest = OldInt
  /\ text = <<>>
  /\ pc = "load"
  /\ fpos = 0
  /\ scan = ScanInit
  /\ lines = <<>>
  /\ ret = 0

ConvLoadOn(found, out) ==
  /\ text' = found.value
  /\ ret' = out.ret
  /\ dest' = out.value

\* the call of LoadDBvalue<T>
ConvLoad ==
  /\ pc = "load"
  /\ pc' = "done"
  /\ ConvLoadOn(LoadDBvalue(file, date, key, <<>>),
                LoadDBvalueT(file, date, key, ctype, dest))
  /\ UNCHANGED <<auxVars, file, date, key, fpos, scan, lines, ctype, dbVars>>

ConvNext == ConvLoad

SpecConv == ConvInit /\ [][ConvNext]_vars

---------------------------------------------------------------------------
(* Arrays and matrices *)

\* the loop of LoadDBarray on the text s still to convert, vals being the
\* elements pushed so far and c the outcome of convert_string on s
RECURSIVE ArrayLoop(_, _, _)
ArrayStep(T, s, vals, c) ==
  IF ConversionFails(T, s, c) THEN [ret |-> -131, values |-> vals]
  ELSE IF c.end = Len(s) + 1 THEN [ret |-> 0, values |-> Append(vals, c.val)]
  ELSE ArrayLoop(T, SubSeq(s, c.end, Len(s)), Append(vals, c.val))

ArrayLoop(T, s, vals) == ArrayStep(T, s, vals, convert_string(T, s))

\* LoadDBarray after its string load r: the vector is cleared once the key is
\* found and filled element by element
LoadDBarrayOn(T, values, r) ==
  IF r.ret # 0 THEN [ret |-> r.ret, values |-> values]
  ELSE ArrayLoop(T, r.value, <<>>)

\* LoadDBarray( file, date, key, values ): [ret, values]
LoadDBarray(T, f, d, k, values) == LoadDBarrayOn(T, values, LoadDBvalue(f, d, k, <<>>))

\* the rows of LoadDBmatrix
MatrixRows(tmpval, ncols) ==
  [irow \in 1..(Len(tmpval) \div ncols) |->
     [i \in 1..ncols |-> tmpval[i + (irow - 1) * ncols]]]

\* LoadDBmatrix after LoadDBarray has filled tmpval. With ncols = 0 the test
\* tmpval.size() % ncols divides by zero, which is undefined: a build whose
\* division yields zero finds the nonzero remainder tmpval.size() and returns
\* -129, a build whose division traps ends the program (DBTrap).
LoadDBmatrixOn(values, ncols, a) ==
  IF a.ret # 0 THEN [ret |-> a.ret, values |-> values]
  ELSE IF ncols = 0 THEN [ret |-> -129, values |-> values]
  ELSE IF Len(a.values) % ncols # 0 THEN [ret |-> -129, values |-> values]
  ELSE [ret |-> 0, values |-> MatrixRows(a.values, ncols)]

\* LoadDBmatrix( file, date, key, values, ncols ): [ret, values]
LoadDBmatrix(T, f, d, k, values, ncols) ==
  LoadDBmatrixOn(values, ncols, LoadDBarray(T, f, d, k, <<>>))

\* the number of bytes of a Double_t
SizeofDouble == 8

\* load_and_assign for nelem >= 2, a being the outcome of LoadDBarray on a local
\* vector: [ret, value, nelem]. The destination is [elems, written], its
\* elements and the number of bytes memcpy was asked to write to it.
LoadFixedOn(old, nelem, a) ==
  IF a.ret # 0 THEN [ret |-> a.ret, value |-> old, nelem |-> nelem]
  ELSE IF Len(a.values) # nelem
    THEN [ret |-> -130, value |-> old, nelem |-> Len(a.values)]
  ELSE [ret |-> 0, value |-> [elems |-> a.values, written |-> nelem * SizeofDouble],
        nelem |-> nelem]

\* load_and_assign for nelem < 2, c being the outcome of LoadDBvalue<T>
LoadScalarOn(nelem, c) == [ret |-> c.ret, value |-> c.value, nelem |-> nelem]

\* load_and_assign<T>( f, date, key, dest, nelem ): [ret, value, nelem]
load_and_assign(T, f, d, k, old, nelem) ==
  IF nelem < 2 THEN LoadScalarOn(nelem, LoadDBvalueT(f, d, k, T, old))
  ELSE LoadFixedOn(old, nelem, LoadDBarray(T, f, d, k, <<>>))

\* load_and_assign_vector after LoadDBarray has worked on the destination
LoadVectorOn(nelem, a) ==
  IF a.ret = 0 /\ nelem > 0 /\ nelem # Len(a.values)
  THEN [ret |-> -130, value |-> a.values, nelem |-> Len(a.values)]
  ELSE [ret |-> a.ret, value |-> a.values, nelem |-> nelem]

\* load_and_assign_vector<T>( f, date, key, dest, nelem ): [ret, value, nelem]
load_and_assign_vector(T, f, d, k, old, nelem) ==
  LoadVectorOn(nelem, LoadDBarray(T, f, d, k, old))

LoadMatrixOn(nelem, m) == [ret |-> m.ret, value |-> m.values, nelem |-> nelem]

\* load_and_assign_matrix<T>( f, date, key, dest, nelem ): [ret, value, nelem]
load_and_assign_matrix(T, f, d, k, old, nelem) ==
  LoadMatrixOn(nelem, LoadDBmatrix(T, f, d, k, old, nelem))

LoadStringOn(nelem, r) == [ret |-> r.ret, value |-> r.value, nelem |-> nelem]

---------------------------------------------------------------------------
(* LoadDatabase *)

\* the last index at or before from that holds c, 0 if there is none
RFind(s, c, from) ==
  IF \E i \in 1..from : s[i] = c
  THEN CHOOSE i \in 1..from : s[i] = c /\ \A j \in (i + 1)..from : s[j] # c
  ELSE 0

CountDots(s) == Cardinality({i \in 1..Len(s) : s[i] = "."})

\* ChopPrefix once rfind has given pos: [s, ndot]
ChopAt(s, pos) ==
  IF pos # 0 THEN [s |-> SubSeq(s, 1, pos), ndot |-> CountDots(SubSeq(s, 1, pos))]
  ELSE [s |-> <<>>, ndot |-> 0]

\* a ChopPrefix that drops every level at once; C7 tells it from ChopPrefix
ChopAll(s) == [s |-> <<>>, ndot |-> 0]

\* a ChopPrefix that leaves the prefix as it is; C20 tells it from ChopPrefix
ChopNone(s) == [s |-> s, ndot |-> CountDots(s)]

\* ChopPrefix( s ): the prefix without its trailing level and the number of
\* dots left
ChopPrefix(s) ==
  IF Len(s) >= 2 THEN ChopAt(s, RFind(s, ".", Len(s) - 1))
  ELSE [s |-> <<>>, ndot |-> 0]

\* the types whose case of the switch on item->type makes a lookup. The
\* floating-point types are not among the requests of this model.
SupportedTypes == DOMAIN IntTypes \cup {"kString", "kTString", "kIntV", "kIntM"}

\* the switch on item->type: [ret, value, nelem]
LoadItem(f, d, k, item, old) ==
  CASE item.type \in DOMAIN IntTypes ->
         load_and_assign(item.type, f, d, k, old, item.nelem)
    [] item.type \in {"kString", "kTString"} ->
         LoadStringOn(item.nelem, LoadDBvalue(f, d, k, old))
    [] item.type = "kIntV" ->
         load_and_assign_vector("kInt", f, d, k, old, item.nelem)
    [] item.type = "kIntM" ->
         load_and_assign_matrix("kInt", f, d, k, old, item.nelem)
    [] OTHER -> [ret |-> -2, value |-> old, nelem |-> item.nelem]

\* a call of LoadDatabase at its first item
Frame(r, p, s) ==
  [req |-> r, idx |-> 1, prefix |-> p, search |-> s, ret |-> 0, brk |-> FALSE]

\* per-item search level overrides global one
NewSearch(item, s) == IF item.search # 0 THEN item.search ELSE s

\* a test that lets only a negative search value go up; C8 tells it from Ascends
AscendsNegative(newsearch, newlevel) == newsearch < 0

\* the test that lets the search go one level up
Ascends(newsearch, newlevel) == newsearch < 0 \/ newlevel >= newsearch

\* the call LoadDatabase makes for one item one level up
NewFrame(item, newprefix, newsearch) ==
  Frame(<<[item EXCEPT !.search = 0]>>, newprefix,
        IF newsearch < 0 THEN newsearch + 1 ELSE newsearch)

\* the diagnostic for a negative status
ErrorKind(r) ==
  CASE r = -2 -> "not implemented"
    [] r = -128 -> "line too long"
    [] r = -129 -> "matrix columns"
    [] r = -130 -> "array size"
    [] r = -131 -> "conversion"
    [] OTHER -> "program error"

\* the running call with its frame replaced
WithTop(fr) == [stack EXCEPT ![Len(stack)] = fr]

\* goto nextitem
NextItem(fr) ==
  /\ stack' = WithTop([fr EXCEPT !.ret = 0, !.idx = fr.idx + 1])
  /\ UNCHANGED <<loaddb_depth, loaddb_prefix, errlog>>

\* a missing key that ends the call also for an optional item; C9 tells it from
\* Missing
MissingRequired(fr, item, k) ==
  /\ errlog' = Append(errlog, [what |-> "missing", var |-> item.var, key |-> k])
  /\ stack' = WithTop([fr EXCEPT !.ret = 1 + (fr.idx - 1), !.brk = TRUE])
  /\ UNCHANGED <<loaddb_depth, loaddb_prefix>>

\* what a missing key ends in if the search goes no further: nothing for an
\* optional item, else the diagnostic and 1 + the index of the item
Missing(fr, item, k) ==
  IF item.optional
  THEN NextItem(fr)
  ELSE /\ errlog' = Append(errlog, [what |-> "missing", var |-> item.var, key |-> k])
       /\ stack' = WithTop([fr EXCEPT !.ret = 1 + (fr.idx - 1), !.brk = TRUE])
       /\ UNCHANGED <<loaddb_depth, loaddb_prefix>>

\* the nested call: on entry the depth counter goes up, and the thread-local
\* prefix is set by the outermost call only
Recurse(fr, item, newprefix, newsearch) ==
  /\ stack' = Append(WithTop(fr), NewFrame(item, newprefix, newsearch))
  /\ loaddb_depth' = loaddb_depth + 1
  /\ loaddb_prefix' = IF loaddb_depth = 0 THEN newprefix ELSE loaddb_prefix
  /\ UNCHANGED errlog

\* ret > 0: key not found
NotFound(fr, item, k, newsearch, chopped) ==
  IF newsearch # 0 /\ fr.prefix # <<>> /\ Ascends(newsearch, chopped.ndot + 1)
  THEN Recurse(fr, item, chopped.s, newsearch)
  ELSE Missing(fr, item, k)

\* ret < 0: the diagnostic, and the loop ends
Failed(fr, item, k, ld) ==
  /\ errlog' = Append(errlog, [what |-> ErrorKind(ld.ret), var |-> item.var, key |-> k])
  /\ stack' = WithTop([fr EXCEPT !.ret = ld.ret, !.brk = TRUE])
  /\ UNCHANGED <<loaddb_depth, loaddb_prefix>>

\* one item of the running call, ld being the outcome of its load
ItemOn(fr, item, k, ld) ==
  /\ tried' = IF item.type \in SupportedTypes
              THEN Append(tried, [var |-> item.var, key |-> k, ret |-> ld.ret])
              ELSE tried
  /\ dest' = [dest EXCEPT ![item.var] = ld.value]
  /\ IF ld.ret = 0 THEN NextItem(fr)
     ELSE IF ld.ret > 0
       THEN NotFound(fr, item, k, NewSearch(item, fr.search), ChopPrefix(fr.prefix))
     ELSE Failed(fr, item, k, ld)

ItemAt(fr, item, k) == ItemOn(fr, item, k, LoadItem(file, date, k, item, dest[item.var]))

\* the running call has an item left
Running(fr) == ~fr.brk /\ fr.idx <= Len(fr.req)

\* the lines the database files of the requests are made of
DBLines ==
  << AssignLine(<<"L">>, <<"3">>),
     AssignLine(<<"n">>, <<"7">>),
     AssignLine(<<"L", ".", "n">>, <<"1", " ", "2">>),
     AssignLine(<<"L", ".", "v", ".", "n">>, <<"9", " ", "x">>) >>

\* the lines of DBLines chosen by the set S, in their order
RECURSIVE Pick(_, _)
Pick(S, i) ==
  IF i > Len(DBLines) THEN <<>>
  ELSE (IF i \in S THEN <<DBLines[i]>> ELSE <<>>) \o Pick(S, i + 1)

DBFiles == {Pick(S, 1) : S \in SUBSET (1..Len(DBLines))}

DBPrefixes ==
  { <<>>, <<"L", ".">>, <<"L", ".", "v">>, <<"L", ".", "v", ".">>, <<"L", ".", "v", ".", "u", ".">> }

\* the largest search level, of either sign
MaxSearch == 2

\* the largest number of items of a request
MaxItems == 2

Item(n, t, ne, o, s) ==
  [name |-> n, var |-> 1, type |-> t, nelem |-> ne, optional |-> o, search |-> s]

\* the items requests are made of; var is set when the request is built
DBItems ==
  { Item(<<"n">>, "kInt", 0, FALSE, 0),
    Item(<<"n">>, "kString", 0, TRUE, 0),
    Item(<<"n">>, "kIntV", 1, TRUE, 1),
    Item(<<"n">>, "kIntV", 0, FALSE, -1),
    [Item(<<"n">>, "kInt", 0, FALSE, 0) EXCEPT !.var = 0] }

\* the request arrays of n items drawn from I: item i has destination i, or none
RequestsOf(I, n) ==
  {[i \in 1..n |-> IF r[i].var = 0 THEN r[i] ELSE [r[i] EXCEPT !.var = i]] :
     r \in [1..n -> I]}

DBRequests == UNION {RequestsOf(DBItems, n) : n \in 1..MaxItems}

\* what the destination of an item holds before the call
OldDest(item) ==
  CASE item.type \in DOMAIN IntTypes /\ item.nelem < 2 -> OldInt
    [] item.type \in DOMAIN IntTypes /\ item.nelem >= 2 ->
         [elems |-> [i \in 1..item.nelem |-> OldInt], written |-> 0]
    [] item.type \in {"kString", "kTString"} -> <<"o">>
    [] item.type = "kIntV" -> <<OldInt>>
    [] item.type = "kIntM" -> << <<OldInt>> >>
    [] OTHER -> <<>>

\* the state before a call of LoadDatabase with a request of R on a file of F
DBInitOn(R, F) ==
  /\ AuxIdle
  /\ file \in F
  /\ date = 20150101
  /\ req \in R
  /\ prefix \in DBPrefixes
  /\ search \in (-MaxSearch)..MaxSearch
  /\ dest = [i \in 1..Len(req) |-> OldDest(req[i])]
  /\ stack = <<>>
  /\ loaddb_depth = 0
  /\ loaddb_prefix = <<>>
  /\ tried = <<>>
  /\ errlog = <<>>
  /\ pc = "call"
  /\ ret = 0
  /\ key = <<>>
  /\ text = <<>>
  /\ ctype = "kString"
  /\ fpos = 0
  /\ scan = ScanInit
  /\ lines = <<>>

DBInitOf(R) == DBInitOn(R, DBFiles)

DBInit == DBInitOf(DBRequests)

\* the caller's call of LoadDatabase: the entry of the outermost call
DBCall ==
  /\ pc = "call"
  /\ pc' = "loaddb"
  /\ stack' = <<Frame(req, prefix, search)>>
  /\ loaddb_depth' = loaddb_depth + 1
  /\ loaddb_prefix' = IF loaddb_depth = 0 THEN prefix ELSE loaddb_prefix
  /\ UNCHANGED <<auxVars, file, date, key, fpos, scan, lines, ret, convVars,
                 req, prefix, search, tried, errlog>>

\* an item without destination is passed over
DBSkip ==
  /\ pc = "loaddb"
  /\ Running(Last(stack))
  /\ Last(stack).req[Last(stack).idx].var = 0
  /\ stack' = WithTop([Last(stack) EXCEPT !.idx = Last(stack).idx + 1])
  /\ UNCHANGED <<auxVars, file, date, key, pc, fpos, scan, lines, ret, convVars,
                 req, prefix, search, loaddb_depth, loaddb_prefix, tried, errlog>>

\* an item with a destination is loaded under the prefix of the running call
DBItem ==
  /\ pc = "loaddb"
  /\ Running(Last(stack))
  /\ Last(stack).req[Last(stack).idx].var # 0
  /\ ItemAt(Last(stack), Last(stack).req[Last(stack).idx],
            Last(stack).prefix \o Last(stack).req[Last(stack).idx].name)
  /\ UNCHANGED <<auxVars, file, date, key, pc, fpos, scan, lines, ret, text, ctype,
                 req, prefix, search>>

\* the caller of a nested call goes on: it ends on a nonzero status, else it
\* takes its next item
Resume(caller, r) ==
  IF r # 0 THEN [caller EXCEPT !.ret = r, !.brk = TRUE]
  ELSE [caller EXCEPT !.ret = 0, !.idx = caller.idx + 1]

\* the running call returns: the depth counter goes down, and the thread-local
\* prefix is cleared when the outermost call returns
DBReturn ==
  /\ pc = "loaddb"
  /\ ~Running(Last(stack))
  /\ loaddb_depth' = loaddb_depth - 1
  /\ loaddb_prefix' = IF loaddb_depth - 1 = 0 THEN <<>> ELSE loaddb_prefix
  /\ IF Len(stack) = 1
     THEN /\ stack' = <<>>
          /\ pc' = "done"
          /\ ret' = Last(stack).ret
     ELSE /\ stack' = Append(SubSeq(stack, 1, Len(stack) - 2),
                             Resume(stack[Len(stack) - 1], Last(stack).ret))
          /\ UNCHANGED <<pc, ret>>
  /\ UNCHANGED <<auxVars, file, date, key, fpos, scan, lines, convVars,
                 req, prefix, search, tried, errlog>>

DBNext == DBCall \/ DBSkip \/ DBItem \/ DBReturn

SpecDB == DBInit /\ [][DBNext]_vars

---------------------------------------------------------------------------
(* LoadDatabase on one item of each kind of destination *)

\* an item of each kind: scalars, strings, a fixed array, vectors, a matrix,
\* a type the switch does not read, and an item without destination
DestItems ==
  { Item(<<"n">>, "kInt", 0, FALSE, 0),
    Item(<<"n">>, "kByte", 1, FALSE, 1),
    Item(<<"n">>, "kString", 0, FALSE, 0),
    Item(<<"n">>, "kTString", 0, TRUE, 0),
    Item(<<"n">>, "kInt", 2, FALSE, 0),
    Item(<<"n">>, "kUShort", 3, FALSE, 0),
    Item(<<"n">>, "kIntV", 0, FALSE, 0),
    Item(<<"n">>, "kIntV", 3, TRUE, -1),
    Item(<<"n">>, "kIntM", 2, FALSE, 0),
    Item(<<"n">>, "kIntM", 1, FALSE, 1),
    Item(<<"n">>, "kObject", 0, FALSE, 0),
    [Item(<<"n">>, "kInt", 0, FALSE, 0) EXCEPT !.var = 0] }

DestInit == DBInitOf(RequestsOf(DestItems, 1))

SpecDest == DestInit /\ [][DBNext]_vars

---------------------------------------------------------------------------
(* ReadDBline called until it returns EOF *)

\* the physical lines the files of the reader are made of: assignments, data,
\* a leading space, continuation marks with and without a space before them,
\* a blank line, a comment line, a trailing comment, a tab
ReadAlphabet ==
  { <<"y", " ", "=", " ", "1">>,
    <<"2", " ", "3">>,
    <<" ", "4">>,
    <<"z", " ", "=", " ", "5", " ", "\\">>,
    <<"6", "\\">>,
    <<>>,
    <<"#", " ", "c">>,
    <<"w", " ", "=", "\t", "7", " ", "#", "c">>,
    <<"\\">> }

ReadFiles == UNION {[1..n -> ReadAlphabet] : n \in 0..MaxLines}

ReadInit ==
  /\ ConvIdle
  /\ DBIdle
  /\ ListIdle
  /\ SeekIdle
  /\ file \in ReadFiles
  /\ fpos = 0
  /\ reads = <<>>
  /\ ret = 0
  /\ pc = "read"
  /\ date = 20150101
  /\ key = <<>>
  /\ scan = ScanInit
  /\ lines = <<>>

ReadCallOn(rd) ==
  /\ reads' = Append(reads, [from |-> fpos, r |-> rd.r, line |-> rd.line, pos |-> rd.pos])
  /\ fpos' = rd.pos
  /\ ret' = rd.r
  /\ pc' = IF rd.r = EOF THEN "done" ELSE "read"

\* one call of ReadDBline by a caller that reads until EOF
ReadCall ==
  /\ pc = "read"
  /\ ReadCallOn(ReadDBline(file, fpos))
  /\ UNCHANGED <<file, date, key, scan, lines, convVars, dbVars, listVars, seekVars>>

ReadNext == ReadCall

SpecRead == ReadInit /\ [][ReadNext]_vars


---------------------------------------------------------------------------
(* LoadDatabase on array and matrix items, the file assigning one value text *)

\* the largest number of fields of a value text
MaxFields == 6

\* the text of the fields 1, 2, .. n separated by single blanks
RECURSIVE Spaced(_)
Spaced(n) ==
  IF n = 1 THEN <<"1">> ELSE Spaced(n - 1) \o <<" ", DigitChar[n + 1]>>

\* the value texts: one to MaxFields fields, fields with signs, fields
\* separated by more than one blank, a field above the range of a 16-bit
\* type, and a field that is no number
ArrTexts ==
  {Spaced(n) : n \in 1..MaxFields}
    \cup { <<"-", "4", " ", "+", "5", " ", "6">>,
           <<"1", " ", " ", "2">>,
           <<"7", "0", "0", "0", "0", " ", "2">>,
           <<"9", " ", "x">> }

ArrFiles == {<<AssignLine(<<"n">>, s)>> : s \in ArrTexts}

\* fixed arrays, vectors and matrices of every length constraint, and an
\* item without destination
ArrItems ==
  { Item(<<"n">>, "kInt", 2, FALSE, 0),
    Item(<<"n">>, "kInt", 3, FALSE, 0),
    Item(<<"n">>, "kUShort", 2, FALSE, 0),
    Item(<<"n">>, "kLong", 2, FALSE, 0),
    Item(<<"n">>, "kIntV", 0, FALSE, 0),
    Item(<<"n">>, "kIntV", 2, FALSE, 0),
    Item(<<"n">>, "kIntV", 3, FALSE, 0),
    Item(<<"n">>, "kIntM", 0, FALSE, 0),
    Item(<<"n">>, "kIntM", 1, FALSE, 0),
    Item(<<"n">>, "kIntM", 2, FALSE, 0),
    Item(<<"n">>, "kIntM", 3, FALSE, 0),
    [Item(<<"n">>, "kInt", 2, FALSE, 0) EXCEPT !.var = 0] }

ArrInit == DBInitOn(RequestsOf(ArrItems, 1), ArrFiles)

\* LoadDBmatrix divides by ncols = 0 once LoadDBarray has read the fields
Traps(item, k) ==
  /\ item.type = "kIntM"
  /\ item.nelem = 0
  /\ LoadDBarray("kInt", file, date, k, <<>>).ret = 0

\* the division by zero of LoadDBmatrix traps: the program ends inside the
\* call, which returns nothing
DBTrap ==
  /\ pc = "loaddb"
  /\ Running(Last(stack))
  /\ Last(stack).req[Last(stack).idx].var # 0
  /\ Traps(Last(stack).req[Last(stack).idx],
           Last(stack).prefix \o Last(stack).req[Last(stack).idx].name)
  /\ pc' = "trap"
  /\ UNCHANGED <<auxVars, file, date, key, fpos, scan, lines, ret, convVars, dbVars>>

ArrNext == DBNext \/ DBTrap

SpecArr == ArrInit /\ [][ArrNext]_vars

---------------------------------------------------------------------------
(* GetDBFileList *)

defaultdir == <<"D", "E", "F", "A", "U", "L", "T">>

dirsep == <<"/">>

\* atoi on a text of digits
RECURSIVE Atoi(_)
Atoi(s) ==
  IF s = <<>> THEN 0 ELSE 10 * Atoi(SubSeq(s, 1, Len(s) - 1)) + DigitVal(s[Len(s)])

\* the directory taken as the database directory: the first of $DB_DIR, DB,
\* db and . that can be opened, <<>> if none can
TheDirOf(dnames, open) ==
  IF \E i \in 1..Len(dnames) : dnames[i] \in open
  THEN dnames[CHOOSE i \in 1..Len(dnames) :
                dnames[i] \in open /\ \A j \in 1..(i - 1) : dnames[j] \notin open]
  ELSE <<>>

TheDir(env, open) ==
  TheDirOf((IF env = <<>> THEN <<>> ELSE <<env>>) \o << <<"D", "B">>, <<"d", "b">>, <<".">> >>,
           open)

\* an entry of 8 characters that are all digits
IsTimeDir(item) == Len(item) = 8 /\ \A i \in 1..8 : IsDigit(item[i])

\* operator< of std::string on texts of digits and letters of equal length
StrLess(a, b) ==
  \E i \in 1..Len(a) :
    /\ \A j \in 1..(i - 1) : a[j] = b[j]
    /\ DigitVal(a[i]) < DigitVal(b[i])

\* sort( time_dirs.begin(), time_dirs.end() )
RECURSIVE SortDirs(_)
SortDirsFrom(S, m) == <<m>> \o SortDirs(S \ {m})

SortDirs(S) ==
  IF S = {} THEN <<>>
  ELSE SortDirsFrom(S, CHOOSE m \in S : \A x \in S : ~StrLess(x, m))

\* a search that takes the first directory later than the date
TimeDirLate(time_dirs, it, d) ==
  IF \E i \in 1..Len(time_dirs) : d < Atoi(time_dirs[i])
  THEN CHOOSE i \in 1..Len(time_dirs) :
         d < Atoi(time_dirs[i]) /\ \A j \in 1..(i - 1) : d >= Atoi(time_dirs[j])
  ELSE Len(time_dirs)

\* the loop over the sorted date directories: the index of the directory
\* found, 0 if none is
RECURSIVE TimeDirLoop(_, _, _)
TimeDirLoop(time_dirs, it, d) ==
  IF it > Len(time_dirs) THEN 0
  ELSE IF it = 1 /\ d < Atoi(time_dirs[it]) THEN 0
  ELSE IF it # 1 /\ d < Atoi(time_dirs[it]) THEN it - 1
  ELSE IF it = Len(time_dirs) /\ d >= Atoi(time_dirs[it]) THEN it
  ELSE TimeDirLoop(time_dirs, it + 1, d)

\* the file name with "db_" put before it unless it starts with it
WithPrefix(filename) ==
  IF Len(filename) >= 3 /\ SubSeq(filename, 1, 3) = <<"d", "b", "_">> THEN filename
  ELSE <<"d", "b", "_">> \o filename

\* the file name made to end with ".dat"
WithSuffix(filename) ==
  IF Last(filename) = "." THEN filename \o <<"d", "a", "t">>
  ELSE IF SubSeq(filename, Len(filename) - 3, Len(filename)) # <<".", "d", "a", "t">>
    THEN filename \o <<".", "d", "a", "t">>
  ELSE filename

\* the search list for the file name, the date directory found being number
\* it of the sorted time_dirs
FileList(filename, thedir, time_dirs, it, have_defaultdir) ==
  <<filename>>
    \o (IF it # 0 THEN <<thedir \o dirsep \o time_dirs[it] \o dirsep \o filename>> ELSE <<>>)
    \o (IF have_defaultdir THEN <<thedir \o dirsep \o defaultdir \o dirsep \o filename>>
        ELSE <<>>)
    \o <<thedir \o dirsep \o filename>>

\* GetDBFileList once the database directory thedir is open. A file name
\* shorter than 4 characters gives the empty list (with assertions compiled
\* in, the assertion ends the program there).
ListIn(n, d, thedir, time_dirs, have_defaultdir) ==
  IF Len(WithPrefix(n)) < 4 THEN <<>>
  ELSE FileList(WithSuffix(WithPrefix(n)), thedir, time_dirs,
                TimeDirLoop(time_dirs, 1, d), have_defaultdir)

\* GetDBFileList( name, date ): the list of file names
GetDBFileListOn(n, d, thedir, e) ==
  IF n = <<>> THEN <<>>
  ELSE IF \E i \in 1..Len(n) : n[i] = "/" THEN <<n>>
  ELSE IF thedir = <<>> THEN <<>>
  ELSE ListIn(n, d, thedir, SortDirs({x \in e : IsTimeDir(x)}),
              \E x \in e : Len(x) # 8 /\ x = defaultdir)

GetDBFileList(n, d, env, open, e) == GetDBFileListOn(n, d, TheDir(env, open), e)

\* the names, dates, directories and directory entries of SpecFiles
ListNames ==
  { <<>>, <<"x">>, <<"d", "b", "_">>, <<"d", "b", "_", "x">>, <<"x", ".">>,
    <<"x", ".", "d", "a", "t">>, <<"a", "/", "x">> }

ListDates == {19990101, 20000101, 20050101, 20100615, 20250101}

EnvDir == <<"/", "e">>

ListOpenable == { {}, {<<".">>}, {<<"d", "b">>, <<".">>}, {EnvDir, <<"D", "B">>} }

ListEntries ==
  { <<"2", "0", "0", "0", "0", "1", "0", "1">>,
    <<"2", "0", "1", "0", "0", "6", "1", "5">>,
    <<"2", "0", "2", "0", "0", "1", "0", "1">>,
    <<"2", "0", "0", "0", "0", "1", "0">>,
    <<"2", "0", "0", "0", "0", "1", "0", "x">>,
    defaultdir }

FilesInit ==
  /\ ConvIdle /\ DBIdle /\ SeekIdle
  /\ reads = <<>> /\ file = <<>> /\ key = <<>> /\ fpos = 0
  /\ scan = ScanInit /\ lines = <<>> /\ ret = 0
  /\ pc = "list"
  /\ name \in ListNames
  /\ date \in ListDates
  /\ dbdir \in {<<>>, EnvDir}
  /\ openable \in ListOpenable
  /\ entries \in SUBSET ListEntries
  /\ fnames = <<>>

\* the call of GetDBFileList
FilesCall ==
  /\ pc = "list"
  /\ pc' = "done"
  /\ fnames' = GetDBFileList(name, date, dbdir, openable, entries)
  /\ UNCHANGED <<file, date, key, fpos, scan, lines, ret, convVars, dbVars, reads,
                 name, dbdir, openable, entries, seekVars>>

FilesNext == FilesCall

SpecFiles == FilesInit /\ [][FilesNext]_vars

---------------------------------------------------------------------------
(* SeekDBconfig and SeekDBdate *)

\* buf matches .*\[.+\].*
IsTagAt(buf, p) ==
  IF p = 0 THEN FALSE
  ELSE IF p + 1 > Len(buf) \/ buf[p + 1] = "]" THEN FALSE
  ELSE FindFrom(buf, "]", p + 2) # 0

IsTag(buf) == IsTagAt(buf, FindFrom(buf, "[", 1))

\* Compress: the text without its blanks
Compress(s) == SelectSeq(s, LAMBDA c : c # " ")

\* string::find: the first place at which pat occurs in s, 0 if there is none
FindSub(s, pat) ==
  IF \E i \in 1..(Len(s) - Len(pat) + 1) : SubSeq(s, i, i + Len(pat) - 1) = pat
  THEN CHOOSE i \in 1..(Len(s) - Len(pat) + 1) :
         /\ SubSeq(s, i, i + Len(pat) - 1) = pat
         /\ \A j \in 1..(i - 1) : SubSeq(s, j, j + Len(pat) - 1) # pat
  ELSE 0

\* the line is skipped by both seeks: empty, or a comment
SeekSkips(buf) == Len(buf) < 1 \/ buf[1] = "#"

\* "[" followed by the label and "=" if a label is given
LabelOf(lab) == IF lab # <<>> THEN <<"[">> \o lab \o <<"=">> ELSE <<"[">>

\* the body of the loop of SeekDBconfig after the label was searched at lbrk
\* and the closing bracket at rbrk: "found", "quit" or "next"
ConfigLineAt(buf, line, llen, t, eot, lbrk, rbrk) ==
  IF lbrk # 0 /\ lbrk - 1 + llen < Len(line)
  THEN (IF rbrk = 0 THEN "next"
        ELSE IF SubSeq(line, lbrk + llen, rbrk - 1) = t THEN "found"
        ELSE "next")
  ELSE IF eot /\ IsTag(buf) THEN "quit"
  ELSE "next"

ConfigLineOn(buf, line, lab, t, eot, lbrk) ==
  ConfigLineAt(buf, line, Len(lab), t, eot, lbrk,
               IF lbrk = 0 THEN 0 ELSE FindFrom(line, "]", lbrk + Len(lab)))

ConfigLine(buf, lab, t, eot) ==
  IF SeekSkips(buf) THEN "next"
  ELSE ConfigLineOn(buf, Compress(buf), lab, t, eot, FindSub(Compress(buf), lab))

\* the loop of SeekDBconfig from position p: [found, pos]
RECURSIVE ConfigLoop(_, _, _, _, _)
ConfigStep(f, p, lab, t, eot, what) ==
  IF what = "found" THEN [found |-> TRUE, pos |-> p + 1]
  ELSE IF what = "quit" THEN [found |-> FALSE, pos |-> p + 1]
  ELSE ConfigLoop(f, p + 1, lab, t, eot)

ConfigLoop(f, p, lab, t, eot) ==
  IF p >= Len(f) THEN [found |-> FALSE, pos |-> p]
  ELSE ConfigStep(f, p, lab, t, eot, ConfigLine(f[p + 1], lab, t, eot))

\* the end of SeekDBconfig: the file is rewound if the tag was not found
SeekEnd(p, r, at) == [ret |-> IF r.found THEN 1 ELSE 0, pos |-> IF r.found THEN at ELSE p]

\* SeekDBconfig( file, tag, label, end_on_tag ) at position p: [ret, pos]
SeekDBconfigOn(p, r) == SeekEnd(p, r, r.pos)

SeekDBconfig(f, p, t, lab, eot) ==
  IF t = <<>> THEN [ret |-> 0, pos |-> p]
  ELSE SeekDBconfigOn(p, ConfigLoop(f, p, LabelOf(lab), t, eot))

\* the body of the loop of SeekDBdate on the line read up to position p, st
\* being [prevdate, foundpos, found, quit] and tagdate the outcome of IsDBdate
DateLineOn(buf, p, d, eot, st, tagdate) ==
  IF tagdate.ok /\ tagdate.date <= d /\ tagdate.date >= st.prevdate
  THEN [st EXCEPT !.prevdate = tagdate.date, !.foundpos = p, !.found = TRUE]
  ELSE IF eot /\ IsTag(buf) THEN [st EXCEPT !.quit = TRUE]
  ELSE st

DateLine(buf, p, d, eot, st) ==
  IF SeekSkips(buf) THEN st ELSE DateLineOn(buf, p, d, eot, st, IsDBdate(buf))

\* the loop of SeekDBdate from position p
RECURSIVE DateLoop(_, _, _, _, _)
DateLoop(f, p, d, eot, st) ==
  IF st.quit \/ p >= Len(f) THEN st
  ELSE DateLoop(f, p + 1, d, eot, DateLine(f[p + 1], p + 1, d, eot, st))

\* SeekDBdate( file, date, end_on_tag ) at position p: [ret, pos]
SeekDBdateOn(p, st) == SeekEnd(p, st, st.foundpos)

SeekDBdate(f, p, d, eot) ==
  SeekDBdateOn(p, DateLoop(f, p, d, eot,
                           [prevdate |-> Sentinel95, foundpos |-> -1,
                            found |-> FALSE, quit |-> FALSE]))

\* the largest number of lines of the files of SpecSeek
MaxSeekLines == 3

TagLine(t) == <<"[">> \o t \o <<"]">>

\* the physical lines the files of SpecSeek are made of
SeekAlphabet ==
  { TagLine(<<"b">>), TagLine(<<"a">>),
    TagLine(<<"c", "=", "b">>), TagLine(<<" ", "c", " ", "=", " ", "b", " ">>),
    TagLine(<<"c", "=", "a">>),
    StampLine("2000-01-01 00:00:00"), StampLine("2010-06-15 12:00:00"),
    AssignLine(KeyX, <<"1">>), <<"#", "[", "a", "]">>, <<>> }

SeekFiles == UNION {[1..n -> SeekAlphabet] : n \in 0..MaxSeekLines}

SeekInit ==
  /\ ConvIdle /\ DBIdle /\ ListIdle
  /\ reads = <<>> /\ key = <<>> /\ scan = ScanInit /\ lines = <<>> /\ ret = 0
  /\ file \in SeekFiles
  /\ seekpos \in {0, 1}
  /\ seekpos <= Len(file)
  /\ fpos = seekpos
  /\ end_on_tag \in BOOLEAN
  /\ pc \in {"config", "date"}
  /\ IF pc = "config"
     THEN tag \in {<<>>, <<"b">>} /\ label \in {<<>>, <<"c">>} /\ date = 20050101
     ELSE tag = <<>> /\ label = <<>> /\ date \in {19990101, 20050101, 20150101}

SeekOn(r, done) == ret' = r.ret /\ fpos' = r.pos /\ pc' = done

\* the call of SeekDBconfig
SeekConfig ==
  /\ pc = "config"
  /\ SeekOn(SeekDBconfig(file, fpos, tag, label, end_on_tag), "config_done")
  /\ UNCHANGED <<file, date, key, scan, lines, convVars, dbVars, reads, listVars, seekVars>>

\* the call of SeekDBdate
SeekDate ==
  /\ pc = "date"
  /\ SeekOn(SeekDBdate(file, fpos, date, end_on_tag), "date_done")
  /\ UNCHANGED <<file, date, key, scan, lines, convVars, dbVars, reads, listVars, seekVars>>

SeekNext == SeekConfig \/ SeekDate

SpecSeek == SeekInit /\ [][SeekNext]_vars
---------------------------------------------------------------------------
(* Claims about LoadDBvalue, stated on the logical lines of the file *)

\* the text of a line left of its first '=', without the blanks around it
LhsOf(line) ==
  LET eq == FindFrom(line, "=", 1)
      I  == {i \in 1..(eq - 1) : line[i] # " "}
  IN IF I = {} THEN <<>>
     ELSE SubSeq(line, CHOOSE i \in I : \A j \in I : i <= j,
                       CHOOSE i \in I : \A j \in I : i >= j)

\* the text of a line right of its first '=', without the blanks before it
RhsOf(line) == SkipBlanks(SubSeq(line, FindFrom(line, "=", 1) + 1, Len(line)))

\* the line assigns to key k
AssignsTo(line, k) == FindFrom(line, "=", 1) # 0 /\ LhsOf(line) = k

\* the stamp of the most recent date-stamp line before logical line i
GoverningStamp(i) ==
  LET J == {j \in 1..(i - 1) : IsDBdate(lines[j]).ok}
  IN IF J = {} THEN Sentinel95
     ELSE IsDBdate(lines[CHOOSE j \in J : \A m \in J : m <= j]).date

\* the assignments to key whose governing stamp is not later than date
Eligible == {i \in 1..Len(lines) : AssignsTo(lines[i], key) /\ GoverningStamp(i) <= date}

\* the last assignment among those of the greatest governing stamp
Selected ==
  CHOOSE i \in Eligible :
    \A j \in Eligible :
      \/ GoverningStamp(j) < GoverningStamp(i)
      \/ (GoverningStamp(j) = GoverningStamp(i) /\ j <= i)

\* C1: LoadDBvalue returns 0 with the value of the last assignment to key of the
\* greatest governing stamp <= date, and 1 exactly when no assignment to key has
\* a governing stamp <= date.
C1_LatestStampValue ==
  pc = "done" =>
    IF Eligible = {} THEN ret = 1
    ELSE ret = 0 /\ scan.value = RhsOf(lines[Selected])

\* C2: for a file whose consecutive physical lines are stamp S1, x = a, stamp S2
\* (S2 > S1), x = b, a load of x returns b for date >= S2, a for
\* S1 <= date < S2, and not-found for date < S1.
C2_StampAfterAssignment ==
  \A t1, t2 \in DOMAIN DateOf :
    \A v1, v2 \in {<<"a">>, <<"b">>} :
      ( /\ pc = "done"
        /\ key = KeyX
        /\ Sentinel95 <= DateOf[t1]
        /\ DateOf[t1] < DateOf[t2]
        /\ file = <<StampLine(t1), AssignLine(KeyX, v1),
                    StampLine(t2), AssignLine(KeyX, v2)>> )
      => /\ (date >= DateOf[t2]) => (ret = 0 /\ scan.value = v2)
         /\ (DateOf[t1] <= date /\ date < DateOf[t2]) => (ret = 0 /\ scan.value = v1)
         /\ (date < DateOf[t1]) => ret = 1

\* C3: a logical line counts as a match, and supplies the value, only if the text
\* left of its first '=', without the blanks around it, equals the key.
C3_ExactKeyMatch ==
  scan.found =>
    \E i \in 1..Len(lines) : AssignsTo(lines[i], key) /\ scan.value = RhsOf(lines[i])


---------------------------------------------------------------------------
(* Claims about the integer conversion, stated on the value text *)

\* the length of the optional sign the text starts with
RefSignLen(s) == IF s # <<>> /\ s[1] \in {"-", "+"} THEN 1 ELSE 0

\* the index of the last digit of the digit run that follows the sign
RefDigitsEnd(s) ==
  CHOOSE e \in RefSignLen(s)..Len(s) :
    /\ \A i \in (RefSignLen(s) + 1)..e : IsDigit(s[i])
    /\ e = Len(s) \/ ~IsDigit(s[e + 1])

\* the text is a decimal literal: a sign, digits, and nothing else
RefLiteral(s) == RefDigitsEnd(s) > RefSignLen(s) /\ RefDigitsEnd(s) = Len(s)

\* the text is a decimal integer followed by nothing but whitespace
RefWhole(s) ==
  /\ RefDigitsEnd(s) > RefSignLen(s)
  /\ \A i \in (RefDigitsEnd(s) + 1)..Len(s) : isspace(s[i])

\* the number the text starts with
RefValue(s) ==
  IntOf(s[1] = "-",
        Norm([i \in 1..(RefDigitsEnd(s) - RefSignLen(s)) |-> DigitVal(s[RefSignLen(s) + i])]))

\* min(T) <= v <= max(T)
RefInRange(T, v) ==
  /\ IntLeq(IntOf(TRUE, IntTypes[T].minmag), v)
  /\ IntLeq(v, IntOf(FALSE, IntTypes[T].max))

\* C4: the scalar load of an integer type returns 0 and stores the number if
\* and only if the value text is a whole decimal integer within the range of
\* the type followed by nothing but whitespace; in every other case, a number
\* followed by whitespace and further text included, it returns -131.
C4_WholeIntegerIff ==
  pc = "done" =>
    IF RefWhole(text) /\ RefInRange(ctype, RefValue(text))
    THEN ret = 0 /\ dest = RefValue(text)
    ELSE ret = -131

\* C5: for an unsigned type, a decimal literal with a minus sign and a nonzero
\* magnitude fails with -131 and stores nothing, a literal above max(T) fails
\* with -131, and max(T) itself is accepted and stored.
C5_UnsignedRange ==
  (pc = "done" /\ ~IntTypes[ctype].signed /\ RefLiteral(text)) =>
    /\ RefValue(text).neg => (ret = -131 /\ dest = OldInt)
    /\ ~IntLeq(RefValue(text), IntOf(FALSE, IntTypes[ctype].max))
         => (ret = -131 /\ dest = OldInt)
    /\ RefValue(text) = IntOf(FALSE, IntTypes[ctype].max)
         => (ret = 0 /\ dest = RefValue(text))


---------------------------------------------------------------------------
(* Claims about LoadDatabase, stated on the lookups it has made *)

\* the lookups made for the item with destination i, in their order
TriedOf(i) == SelectSeq(tried, LAMBDA t : t.var = i)

\* the item was looked up, and no lookup found its key
NotFoundAnywhere(i) ==
  /\ TriedOf(i) # <<>>
  /\ \A j \in 1..Len(TriedOf(i)) : TriedOf(i)[j].ret > 0

\* the items of the request that have a destination
Items == {i \in 1..Len(req) : req[i].var # 0}

\* the effective search value of an item
EffSearch(i) == IF req[i].search # 0 THEN req[i].search ELSE search

\* the prefix without its last dotted component: the longest proper initial
\* part that is empty or ends with a dot
RefChop(p) ==
  SubSeq(p, 1, CHOOSE n \in 0..(Len(p) - 1) :
                 /\ n = 0 \/ p[n] = "."
                 /\ \A m \in (n + 1)..(Len(p) - 1) : p[m] # ".")

\* the level of a prefix: its number of dots + 1
RefLevel(p) == Cardinality({i \in 1..Len(p) : p[i] = "."}) + 1

\* the prefixes tried for search value s if the key is found at none of them
RECURSIVE RefPrefixes(_, _)
RefPrefixes(p, s) ==
  IF p # <<>> /\ s # 0 /\ (s < 0 \/ RefLevel(RefChop(p)) >= s)
  THEN <<p>> \o RefPrefixes(RefChop(p), IF s < 0 THEN s + 1 ELSE s)
  ELSE <<p>>

\* the number of ascensions that lead from the prefix to the empty prefix
Components(p) == Len(RefPrefixes(p, 0 - Len(p) - 1)) - 1

\* C6: when a non-optional item at index i (counted from 0) of the request is
\* found neither at the prefix nor at any prefix the fallback tries,
\* LoadDatabase returns 1 + i.
C6_MissingIndex ==
  pc = "done" =>
    \A i \in Items : (~req[i].optional /\ NotFoundAnywhere(i)) => ret = 1 + (i - 1)

\* the lookups t made for item i follow the prefixes e: the same keys in the
\* same order, each lookup but the last one not found, all of e tried if the
\* key is found nowhere, and the destination loaded from the first key found
FollowsOrder(i, t, e) ==
  /\ Len(t) <= Len(e)
  /\ \A j \in 1..Len(t) : t[j].key = e[j] \o req[i].name
  /\ \A j \in 1..(Len(t) - 1) : t[j].ret > 0
  /\ t[Len(t)].ret > 0 => Len(t) = Len(e)
  /\ t[Len(t)].ret = 0 =>
       dest[i] = LoadItem(file, date, t[Len(t)].key, req[i], OldDest(req[i])).value

\* C7: for an item of name n and effective search value s, LoadDatabase tries
\* the keys prefix||n, chop(prefix)||n, ... in this order and takes the first
\* one found: only the prefix itself for s = 0, at most m ascensions for
\* s = -m and never beyond the empty prefix, and for s = N > 0 an ascension
\* only to a prefix of level >= N.
C7_FallbackOrder ==
  pc = "done" =>
    \A i \in Items :
      TriedOf(i) # <<>> => FollowsOrder(i, TriedOf(i), RefPrefixes(prefix, EffSearch(i)))

\* C7 witness: a key found after two ascensions under a positive search value
C7_Witness ==
  /\ pc = "done"
  /\ ret = 0
  /\ \E i \in Items :
       /\ EffSearch(i) > 0
       /\ Len(TriedOf(i)) = 3
       /\ TriedOf(i)[3].ret = 0
       /\ TriedOf(i)[3].key = <<"L", ".">> \o req[i].name

\* the key of item i is found with the empty prefix and with no other prefix
\* on the way up from the given prefix
TopOnly(i) ==
  /\ LoadDBvalue(file, date, req[i].name, <<>>).ret = 0
  /\ \A j \in 1..Components(prefix) :
       LoadDBvalue(file, date,
                   RefPrefixes(prefix, 0 - Len(prefix) - 1)[j] \o req[i].name, <<>>).ret = 1

\* LoadDatabase has looked item i up with the empty prefix, and found it there
FoundAtTop(i) ==
  /\ TriedOf(i) # <<>>
  /\ Last(TriedOf(i)).key = req[i].name
  /\ Last(TriedOf(i)).ret <= 0

ItemFails(j) == \E e \in 1..Len(errlog) : errlog[e].var = j

\* LoadDatabase has come to item j: it has looked it up or refused its type
Reached(j) == TriedOf(j) # <<>> \/ ItemFails(j)

\* C9: when an optional item is found neither at its prefix nor at any prefix
\* the fallback tries, its destination keeps the contents it had before the
\* call, no error is reported for it, LoadDatabase goes on to the item that
\* follows it, and the call returns 0 if no other item fails.
C9_OptionalMissing ==
  pc = "done" =>
    \A i \in Items :
      (req[i].optional /\ NotFoundAnywhere(i)) =>
        /\ dest[i] = OldDest(req[i])
        /\ ~ItemFails(i)
        /\ \A j \in Items : (j > i /\ \A m \in Items : m > i => j <= m) => Reached(j)
        /\ (\A j \in Items \ {i} : ~ItemFails(j)) => ret = 0

\* C9 witness: an optional item missing after an ascension, the item after it
\* loaded, and the call returning 0
C9_Witness ==
  /\ pc = "done"
  /\ ret = 0
  /\ \E i \in Items :
       /\ req[i].optional
       /\ NotFoundAnywhere(i)
       /\ Len(TriedOf(i)) >= 2
       /\ \E j \in Items : j > i /\ Last(TriedOf(j)).ret = 0 /\ dest[j] # OldDest(req[j])

\* C10: when LoadDatabase returns a nonzero status, every destination either
\* holds the contents it had before the call or a complete value of a load
\* that succeeded; the destination of the item that failed with -131 or -130
\* is unchanged.
C10_NoPartialDestination ==
  (pc = "done" /\ ret # 0) =>
    \A i \in Items :
      \/ dest[i] = OldDest(req[i])
      \/ TriedOf(i) # <<>> /\ Last(TriedOf(i)).ret = 0


---------------------------------------------------------------------------
(* Claims about ReadDBline, stated on the physical lines of the file *)

\* a physical line with its tabs read as spaces
RefTabs(l) == [i \in 1..Len(l) |-> IF l[i] = "\t" THEN " " ELSE l[i]]

\* the place of the first comment start or continuation mark of a line, 0 if none
RefMarkAt(l) ==
  IF \E i \in 1..Len(l) : l[i] \in {"#", "\\"}
  THEN CHOOSE i \in 1..Len(l) : l[i] \in {"#", "\\"} /\ \A j \in 1..(i - 1) : l[j] \notin {"#", "\\"}
  ELSE 0

\* what ends physical line i: a continuation mark, a comment, or nothing
RefMark(i) ==
  IF RefMarkAt(file[i]) = 0 THEN "none"
  ELSE IF file[i][RefMarkAt(file[i])] = "\\" THEN "cont" ELSE "comment"

\* the text of a line before its mark, without the whitespace around it
RefContentOf(l) ==
  Trim(RefTabs(IF RefMarkAt(l) = 0 THEN l ELSE SubSeq(l, 1, RefMarkAt(l) - 1)))

\* the content of physical line i
RefContent(i) == RefContentOf(file[i])

RefIsAssign(i) == RefContent(i) # <<>> /\ IsAssignment(RefContent(i))

\* a line without content and without mark
RefBlank(i) == RefContent(i) = <<>> /\ RefMark(i) = "none"

\* what is pending after a line, by the continuation rules: nothing ("idle"), a
\* logical line begun by an assignment without mark that adopts the lines
\* after it ("implicit"), or a logical line whose last part ended with the
\* continuation mark ("explicit")
RefStep(mode, i) ==
  IF RefContent(i) = <<>> THEN (IF RefMark(i) = "none" THEN "idle" ELSE mode)
  ELSE IF mode = "explicit" THEN (IF RefMark(i) = "cont" THEN "explicit" ELSE "idle")
  ELSE IF mode = "implicit" /\ ~RefIsAssign(i) THEN "implicit"
  ELSE IF RefMark(i) = "cont" THEN "explicit"
  ELSE IF RefIsAssign(i) THEN "implicit"
  ELSE "idle"

\* what is pending after the first i physical lines
RECURSIVE RefMode(_)
RefMode(i) == IF i = 0 THEN "idle" ELSE RefStep(RefMode(i - 1), i)

\* the first physical line with content after position from, 0 if there is none
RefFirstData(from) ==
  IF \E a \in (from + 1)..Len(file) : RefContent(a) # <<>>
  THEN CHOOSE a \in (from + 1)..Len(file) :
         RefContent(a) # <<>> /\ \A j \in (from + 1)..(a - 1) : RefContent(j) = <<>>
  ELSE 0

\* the physical line that starts the logical line of call k
StartOf(k) == RefFirstData(reads[k].from)

\* the line that ends the lines adopted by the assignment on line a: the first
\* blank line or assignment after it, Len(file) + 1 at end of file
RunEnd(a) ==
  CHOOSE b \in (a + 1)..(Len(file) + 1) :
    /\ b = Len(file) + 1 \/ RefBlank(b) \/ RefIsAssign(b)
    /\ \A j \in (a + 1)..(b - 1) : ~RefBlank(j) /\ ~RefIsAssign(j)

\* the contents of lines a..e joined by single spaces
RECURSIVE JoinContents(_, _)
JoinContents(a, e) ==
  IF a > e THEN <<>>
  ELSE IF a = e \/ JoinContents(a + 1, e) = <<>> THEN
         (IF RefContent(a) = <<>> THEN JoinContents(a + 1, e) ELSE RefContent(a))
  ELSE IF RefContent(a) = <<>> THEN JoinContents(a + 1, e)
  ELSE RefContent(a) \o <<" ">> \o JoinContents(a + 1, e)

\* call k began with the assignment without mark on line a, and b ends its run
ImplicitJoin(k, a, b) ==
  /\ reads[k].r = 0
  /\ reads[k].line = JoinContents(a, b - 1)
  /\ ~isspace(Last(reads[k].line))
  /\ reads[k].pos = IF b <= Len(file) /\ RefBlank(b) THEN b ELSE b - 1
  /\ k < Len(reads)
  /\ b = Len(file) + 1 => reads[k + 1].r = EOF
  /\ (b <= Len(file) /\ RefIsAssign(b)) =>
       /\ reads[k + 1].r = 0
       /\ reads[k + 1].from = b - 1
       /\ StartOf(k + 1) = b
       /\ SubSeq(reads[k + 1].line, 1, Len(RefContent(b))) = RefContent(b)

\* C11: a call that begins with an assignment line without continuation mark
\* returns it joined by single spaces with the non-blank non-assignment lines
\* after it, without trailing space, and leaves the file at the start of the
\* new assignment line that ended them, which the next call returns in full;
\* if the lines run to end of file the call returns OK and only the next call
\* returns EOF. Every assignment line that does not continue a line ended by
\* the continuation mark starts exactly one returned logical line.
C11_ImplicitContinuation ==
  pc = "done" =>
    /\ \A k \in 1..Len(reads) :
         (StartOf(k) # 0 /\ RefIsAssign(StartOf(k)) /\ RefMark(StartOf(k)) # "cont")
           => ImplicitJoin(k, StartOf(k), RunEnd(StartOf(k)))
    /\ \A a \in 1..Len(file) :
         (RefIsAssign(a) /\ RefMode(a - 1) # "explicit")
           => Cardinality({k \in 1..Len(reads) : reads[k].r = 0 /\ StartOf(k) = a}) = 1

\* C11 witness: `y = 1`, `2 3`, ` 4`, `z = 5 \` has been read: the first call
\* has returned `y = 1 2 3 4` and left the file at the fourth line
C11_Witness ==
  /\ pc = "done"
  /\ Len(file) = 4
  /\ file[1] = <<"y", " ", "=", " ", "1">>
  /\ file[2] = <<"2", " ", "3">>
  /\ file[3] = <<" ", "4">>
  /\ RefIsAssign(4)
  /\ reads[1].line = <<"y", " ", "=", " ", "1", " ", "2", " ", "3", " ", "4">>
  /\ reads[1].pos = 3
  /\ reads[2].from = 3


\* the raw text of line i before its mark, tabs read as spaces
RefBody(i) ==
  RefTabs(IF RefMarkAt(file[i]) = 0 THEN file[i] ELSE SubSeq(file[i], 1, RefMarkAt(file[i]) - 1))

\* lines a..b are a group joined by the continuation mark: every line but the
\* last ends with the mark, the last has content and no mark, and no line
\* before the group continues into it
IsGroup(a, b) ==
  /\ a < b
  /\ \A j \in a..(b - 1) : RefMark(j) = "cont"
  /\ RefMark(b) # "cont" /\ RefContent(b) # <<>>
  /\ a = 1 \/ RefMark(a - 1) # "cont"

\* the group is read while an assignment before it adopts the lines after it
InImplicit(a) == RefMode(a - 1) = "implicit" /\ ~RefIsAssign(a)

\* the text acc followed by the content of line i, with the space between
\* them that the spacing rules preserve: always one if sp, otherwise one if
\* white space precedes the mark of the part before or begins line i; the
\* first content keeps the white space before it
JoinPart(acc, i, sp) ==
  IF RefContent(i) = <<>> THEN acc
  ELSE IF acc = <<>> THEN
         (IF isspace(RefBody(i)[1]) THEN <<" ">> ELSE <<>>) \o RefContent(i)
  ELSE IF isspace(Last(acc)) THEN acc \o RefContent(i)
  ELSE IF sp \/ isspace(RefBody(i)[1]) THEN acc \o <<" ">> \o RefContent(i)
  ELSE acc \o RefContent(i)

\* acc with the space that follows the content of line i before its mark
JoinTail(acc, i) ==
  IF RefContent(i) # <<>> /\ RefMark(i) = "cont" /\ isspace(Last(RefBody(i)))
  THEN acc \o <<" ">> ELSE acc

\* the content of lines a..b written on one physical line
RECURSIVE JoinGroup(_, _, _, _)
JoinGroup(acc, a, b, sp) ==
  IF a > b THEN acc
  ELSE JoinGroup(JoinTail(JoinPart(acc, a, sp), a), a + 1, b, sp)

\* the file with lines a..b replaced by their content on one physical line
JoinedFile(a, b) ==
  SubSeq(file, 1, a - 1) \o <<JoinGroup(<<>>, a, b, InImplicit(a))>>
    \o SubSeq(file, b + 1, Len(file))

\* the logical lines that ReadDBline returns with OK from position pos of f on
RECURSIVE ReadAllOn(_, _)
ReadAllOn(f, rd) ==
  IF rd.r = EOF THEN <<>>
  ELSE <<rd.line>> \o ReadAllOn(f, ReadDBline(f, rd.pos))

ReadAll(f) == ReadAllOn(f, ReadDBline(f, 0))

\* the logical lines returned with OK by the calls made on the file
RECURSIVE OKLinesFrom(_)
OKLinesFrom(k) ==
  IF k > Len(reads) THEN <<>>
  ELSE IF reads[k].r = 0 THEN <<reads[k].line>> \o OKLinesFrom(k + 1)
  ELSE OKLinesFrom(k + 1)

OKLines == OKLinesFrom(1)

\* no line with content that is not an assignment stands between the group
\* ending at line b and the next blank line, assignment line or end of file
NothingToAdopt(b) == \A j \in (b + 1)..(RunEnd(b) - 1) : RefContent(j) = <<>>

Unmixed(a, b) ==
  /\ InImplicit(a) => \A j \in (a + 1)..b : ~RefIsAssign(j)
  /\ ~IsAssignment(JoinedFile(a, b)[a]) \/ NothingToAdopt(b)

C13_NoTrailingSpace ==
  \A k \in 1..Len(reads) :
    reads[k].r = 0 =>
      /\ reads[k].line # <<>> /\ ~isspace(Last(reads[k].line))
      /\ FindFrom(reads[k].line, "=", 1) # 0 => IsDBkeyAssertion(reads[k].line)


\* the text s occurs in the text t
OccursIn(s, t) ==
  \E i \in 0..(Len(t) - Len(s)) : SubSeq(t, i + 1, i + Len(s)) = s

\* C19: when ReadDBline has returned EOF, the content of every physical line
\* occurs in a logical line that was returned with OK, and the call that
\* returned EOF carries no data
C19_NoContentLost ==
  pc = "done" =>
    /\ \A k \in 1..Len(reads) : reads[k].r = EOF => reads[k].line = <<>>
    /\ \A i \in 1..Len(file) :
         RefContent(i) # <<>> =>
           \E k \in 1..Len(reads) : reads[k].r = 0 /\ OccursIn(RefContent(i), reads[k].line)


---------------------------------------------------------------------------
(* Claims about array and matrix items *)

\* the value text the file assigns
ValueText == RhsOf(file[1])

\* the whitespace-separated fields of a text, cur being the field begun
RECURSIVE RefFieldsFrom(_, _, _)
RefFieldsFrom(s, i, cur) ==
  IF i > Len(s) THEN (IF cur = <<>> THEN <<>> ELSE <<cur>>)
  ELSE IF isspace(s[i]) THEN
         (IF cur = <<>> THEN <<>> ELSE <<cur>>) \o RefFieldsFrom(s, i + 1, <<>>)
  ELSE RefFieldsFrom(s, i + 1, Append(cur, s[i]))

RefFields(s) == RefFieldsFrom(s, 1, <<>>)

\* the type of the elements of an item
ElemType(item) == IF item.type \in {"kIntV", "kIntM"} THEN "kInt" ELSE item.type

\* every field is a decimal literal within the range of T
AllConvert(T, s) ==
  /\ RefFields(s) # <<>>
  /\ \A j \in 1..Len(RefFields(s)) :
       RefLiteral(RefFields(s)[j]) /\ RefInRange(T, RefValue(RefFields(s)[j]))

\* the numbers of the fields, in their order
RefValues(s) == [j \in 1..Len(RefFields(s)) |-> RefValue(RefFields(s)[j])]

\* the number of bytes of an element of type T
RefSizeof(T) ==
  CASE T \in {"kChar", "kByte"} -> 1
    [] T \in {"kShort", "kUShort"} -> 2
    [] T \in {"kInt", "kUInt"} -> 4
    [] OTHER -> 8

IsFixedArray(item) == item.type \in DOMAIN IntTypes /\ item.nelem >= 2

IsVector(item) == item.type = "kIntV"

\* the request constrains the number of elements
Constrained(item) == IsFixedArray(item) \/ (IsVector(item) /\ item.nelem > 0)

\* the key of item i was found and its fields all convert
ArrayCase(i) ==
  /\ IsFixedArray(req[i]) \/ IsVector(req[i])
  /\ ~NotFoundAnywhere(i)
  /\ AllConvert(ElemType(req[i]), ValueText)

\* the destination of item i holds the fields, and nothing but them was written
HoldsFields(i) ==
  IF IsVector(req[i]) THEN dest[i] = RefValues(ValueText)
  ELSE /\ dest[i].elems = RefValues(ValueText)
       /\ dest[i].written = req[i].nelem * RefSizeof(req[i].type)

\* the status is -130 exactly for a constrained request with another number
\* of fields
LengthStatus(i) ==
  ret = -130 <=> (Constrained(req[i]) /\ Len(RefFields(ValueText)) # req[i].nelem)

\* C14: for an array item whose fields all convert, LoadDatabase returns
\* -130 if and only if the request constrains the length and the number of
\* fields differs from nelem; otherwise it returns 0 and the destination
\* holds exactly the converted fields in file order
C14_ArrayLength ==
  pc = "done" =>
    \A i \in Items :
      ArrayCase(i) => (LengthStatus(i) /\ (ret # -130 => (ret = 0 /\ HoldsFields(i))))


\* the key of matrix item i was found and its fields all convert
MatrixCase(i) ==
  /\ req[i].type = "kIntM"
  /\ ~NotFoundAnywhere(i)
  /\ AllConvert("kInt", ValueText)

\* k fields fill whole rows of n columns
Divisible(k, n) == n # 0 /\ k % n = 0

\* the rows of n columns of the numbers v: element j of row r is number
\* (r - 1) * n + j
RefRows(v, n) ==
  [r \in 1..(Len(v) \div n) |-> [j \in 1..n |-> v[(r - 1) * n + j]]]

\* the status and the destination of matrix item i for its k fields
MatrixResult(i, k) ==
  IF Divisible(k, req[i].nelem)
  THEN ret = 0 /\ dest[i] = RefRows(RefValues(ValueText), req[i].nelem)
  ELSE ret = -129 /\ dest[i] = OldDest(req[i])

\* C15: for a matrix item of any column count whose k fields all convert,
\* the load returns -129 and leaves the destination unchanged if k is not
\* divisible by ncols, and otherwise returns 0 with k / ncols rows of ncols
\* elements in row-major order; the call always returns a status code
C15_MatrixShape ==
  /\ pc # "trap"
  /\ pc = "done" =>
       \A i \in Items : MatrixCase(i) => MatrixResult(i, Len(RefFields(ValueText)))


---------------------------------------------------------------------------
(* Claims about GetDBFileList *)

\* the entries of the database directory that are date directories
RefDateDirs == {e \in entries : Len(e) = 8 /\ \A i \in 1..8 : IsDigit(e[i])}

\* the date directories d with d <= date < next date directory
RefSelected ==
  {d \in RefDateDirs :
     /\ Atoi(d) <= date
     /\ \A n \in RefDateDirs : Atoi(n) > Atoi(d) => date < Atoi(n)}

\* the text s ends with the text e
EndsWith(s, e) == Len(s) >= Len(e) /\ SubSeq(s, Len(s) - Len(e) + 1, Len(s)) = e

\* the name with .dat after it if that is missing
RefDat(n) ==
  IF EndsWith(n, <<".", "d", "a", "t">>) THEN n
  ELSE IF EndsWith(n, <<".">>) THEN n \o <<"d", "a", "t">>
  ELSE n \o <<".", "d", "a", "t">>

\* the name as db_<name>.dat: db_ before it if that is missing
RefFileName(n) ==
  IF Len(n) >= 3 /\ SubSeq(n, 1, 3) = <<"d", "b", "_">> THEN RefDat(n)
  ELSE RefDat(<<"d", "b", "_">> \o n)

\* the path of file fn in directory sub of the database directory
RefPath(sub, fn) == TheDir(dbdir, openable) \o <<"/">> \o sub \o <<"/">> \o fn

\* the list the rules give for the normalized file name fn
RefList(fn) ==
  <<fn>>
    \o (IF RefSelected = {} THEN <<>>
        ELSE <<RefPath(CHOOSE d \in RefSelected : TRUE, fn)>>)
    \o (IF defaultdir \in entries THEN <<RefPath(defaultdir, fn)>> ELSE <<>>)
    \o <<TheDir(dbdir, openable) \o <<"/">> \o fn>>

\* the name is a database name without directory part, and a database
\* directory can be opened
ListCase ==
  /\ name # <<>>
  /\ name # <<"d", "b", "_">>
  /\ \A i \in 1..Len(name) : name[i] # "/"
  /\ TheDir(dbdir, openable) # <<>>

---------------------------------------------------------------------------
(* Claims about SeekDBconfig and SeekDBdate *)

\* the line is read by the seeks: not empty and not a comment
RefRead(i) == file[i] # <<>> /\ file[i][1] # "#"

\* the text between the brackets of a line without its blanks, <<>> if the
\* line has no brackets
RefInner(l) ==
  IF FindFrom(l, "[", 1) # 0 /\ FindFrom(l, "]", FindFrom(l, "[", 1)) # 0
  THEN Compress(SubSeq(l, FindFrom(l, "[", 1) + 1, FindFrom(l, "]", FindFrom(l, "[", 1)) - 1))
  ELSE <<>>

\* the line is a section tag: brackets with text between them
RefIsTag(i) ==
  /\ RefRead(i)
  /\ \E a \in 1..Len(file[i]) : \E b \in (a + 2)..Len(file[i]) :
       file[i][a] = "[" /\ file[i][b] = "]"

\* the line is the requested [label=tag], or [tag] if the label is empty
RefMatches(i) ==
  /\ RefRead(i)
  /\ RefInner(file[i]) = (IF label = <<>> THEN tag ELSE label \o <<"=">> \o tag)

\* a section tag that is not the requested one stands at line i after the
\* position of the call, before any line that matches
RefStopsAt(i) ==
  /\ i > seekpos
  /\ RefIsTag(i)
  /\ ~RefMatches(i)
  /\ \A j \in (seekpos + 1)..(i - 1) : ~RefMatches(j)

\* C17: SeekDBconfig with end_on_tag: if a section tag that is not the
\* requested one occurs before the first matching line, the call returns 0
\* and the file is at the position it had before the call
C17_EndOnTag ==
  (pc = "config_done" /\ end_on_tag /\ tag # <<>>) =>
    ((\E i \in 1..Len(file) : RefStopsAt(i)) => (ret = 0 /\ fpos = seekpos))


\* the line is a date stamp
RefIsStamp(i) == RefRead(i) /\ IsDBdate(file[i]).ok

\* the last line of the region SeekDBdate scans with end_on_tag: the first
\* section tag after the position of the call that is not a date stamp, the
\* last line of the file if there is none
RefRegionEnd ==
  IF \E i \in (seekpos + 1)..Len(file) : RefIsTag(i) /\ ~RefIsStamp(i)
  THEN CHOOSE i \in (seekpos + 1)..Len(file) :
         /\ RefIsTag(i) /\ ~RefIsStamp(i)
         /\ \A j \in (seekpos + 1)..(i - 1) : ~(RefIsTag(j) /\ ~RefIsStamp(j))
  ELSE Len(file)

\* the last line of lines i..e whose stamp is <= date and >= the stamp
\* honored before it, prev being the stamp and last the line honored so far
RECURSIVE RefHonored(_, _, _, _)
RefHonored(i, e, prev, last) ==
  IF i > e THEN last
  ELSE IF RefIsStamp(i) /\ IsDBdate(file[i]).date <= date /\ IsDBdate(file[i]).date >= prev
    THEN RefHonored(i + 1, e, IsDBdate(file[i]).date, i)
  ELSE RefHonored(i + 1, e, prev, last)

\* the call returned 1 with the file right after line i, or 0 with the file
\* at the position of the call if i = 0
SeekLeftAt(i) ==
  IF i = 0 THEN ret = 0 /\ fpos = seekpos ELSE ret = 1 /\ fpos = i

\* C18: SeekDBdate with end_on_tag scans up to the end of file or the first
\* section tag that is not a date stamp, a date stamp never ending the scan,
\* and leaves the file right after the last line of the scanned region whose
\* stamp was <= date and >= the stamp honored before (return 1), or at the
\* original position if there is none (return 0)
C18_DateScan ==
  (pc = "date_done" /\ end_on_tag) =>
    SeekLeftAt(RefHonored(seekpos + 1, RefRegionEnd, Sentinel95, 0))


---------------------------------------------------------------------------
(* Claims about the recursion of LoadDatabase *)

\* every nested call runs under a prefix strictly shorter than its caller's,
\* whose prefix is not empty; the nesting depth is at most the length of the
\* prefix of the outermost call; the depth counter counts the calls, and it
\* is 0 and the recorded prefix empty once the outermost call has returned
Nesting ==
  /\ \A j \in 2..Len(stack) :
       /\ stack[j - 1].prefix # <<>>
       /\ Len(stack[j].prefix) < Len(stack[j - 1].prefix)
  /\ Len(stack) <= Len(prefix) + 1
  /\ loaddb_depth = Len(stack)
  /\ pc = "done" => (loaddb_depth = 0 /\ loaddb_prefix = <<>>)

\* the steps an item can take under prefix p, its nested calls included
ItemCost(p) == 2 * Len(p) + 1

\* the items a call still has to take
Remaining(fr) == IF fr.brk THEN 0 ELSE Len(fr.req) - fr.idx + 1

\* the steps call j of the stack can still take: those of its items and its
\* return; the item of a call that waits for a nested call is taken
FrameWork(j) ==
  IF j = Len(stack) THEN Remaining(stack[j]) * ItemCost(stack[j].prefix) + 1
  ELSE (Remaining(stack[j]) - 1) * ItemCost(stack[j].prefix) + 1

RECURSIVE Work(_)
Work(j) == IF j = 0 THEN 0 ELSE FrameWork(j) + Work(j - 1)

\* a bound on the steps still to be taken; it is a natural number
Variant ==
  CASE pc = "call" -> 2 + Len(req) * ItemCost(prefix)
    [] pc = "loaddb" -> Work(Len(stack))
    [] OTHER -> 0

\* a call that has not returned has a step to take: the entry of the
\* outermost call, or an item or the return of the running call
Progress ==
  /\ pc \in {"call", "loaddb", "done"}
  /\ pc = "loaddb" => stack # <<>>

\* C20: the hierarchical fallback always terminates: every recursive call
\* has a strictly shorter prefix than its caller, none is made at the empty
\* prefix, the nesting depth is bounded by the length of the prefix, every
\* step lowers a bound on the steps still to be taken until the outermost
\* call returns, and then the depth counter is 0 and the recorded prefix is
\* cleared
C20_Terminates ==
  /\ [](Nesting /\ Progress /\ Variant >= 0)
  /\ [][Variant' < Variant]_vars

\* C20 witness: the outermost call has returned after three nested calls,
\* one inside the other, had looked an item up at each level above L.v.u.
C20_Witness ==
  /\ pc = "done"
  /\ Len(prefix) = 6
  /\ \E i \in Items : Len(TriedOf(i)) = 4 /\ TriedOf(i)[4].key = req[i].name
  /\ loaddb_depth = 0
  /\ loaddb_prefix = <<>>


(***************************************************************************)
(* Claims about the bytes copied by load_and_assign                        *)
(***************************************************************************)

\* the fixed array of item i was loaded by a successful call
FixedLoaded(i) ==
  /\ IsFixedArray(req[i])
  /\ ~NotFoundAnywhere(i)
  /\ ret = 0

\* the number of bytes of a destination sized for nelem elements of the
\* item's type
RefBufferBytes(item) == item.nelem * RefSizeof(item.type)

\* C21: a successful load of a fixed-length array (nelem >= 2) of element
\* type T writes exactly nelem elements of T, that is nelem * sizeof(T)
\* bytes, into the destination: it reads no more than the nelem converted
\* elements and never writes past a buffer sized for nelem elements of T
C21_ExactBytes ==
  pc = "done" =>
    \A i \in Items :
      FixedLoaded(i) =>
        /\ Len(dest[i].elems) = req[i].nelem
        /\ dest[i].written = RefBufferBytes(req[i])

====
